---- MODULE Spec2Model ----
(***************************************************************************)
(* A model of schwab-trader's streaming client (schwab/streaming.py:       *)
(* SchwabStreamer, StreamerClient) and of its portfolio ledger             *)
(* (schwab/portfolio.py: PortfolioManager).                                *)
(*                                                                         *)
(* The specifications share the module's variables:                        *)
(*   StreamSpec      one WebSocket connection: subscriptions, data frames  *)
(*   SupervisorSpec  the reconnecting wrapper around successive connections*)
(*   SupervisorLiveSpec  the same under fairness of the reconnect loop     *)
(*   SubscriptionSpec  the subscriptions one connection tracks             *)
(*   LifecycleSpec   start / stop and the server's answer to LOGIN         *)
(*   PositionSpec    accounts and position maps (add / refresh / update)   *)
(*   Spec            orders, status callbacks and the monitoring loop      *)
(*   PlacementSpec   order placement and the recovery of the order id      *)
(*   ExecutionSpec   execution records derived from order activity         *)
(*   ConnectionLiveSpec  a connection whose socket fails, under fairness   *)
(*   MonitoringSpec  the monitoring flag and the monitor_loop threads      *)
(*   SummarySpec     balances, priced positions and their valuation        *)
(*   ConcurrentSpec  refresh_positions step by step beside readers         *)
(*   RestoreSpec     the saved state and construction from it              *)
(*   SlowCallbackSpec  a connection with a callback that takes its time    *)
(*   ShutdownSpec    the two background loops and their start and stop     *)
(*   ReentrantSpec   order callbacks that call back into the ledger        *)
(***************************************************************************)
EXTENDS Integers, Sequences, FiniteSets, TLC

VARIABLES
    \* ---- StreamerClient / SchwabStreamer
    streamer,       \* StreamerClient.streamer: a SchwabStreamer, or NoStreamer
    replaced,       \* the SchwabStreamer the reconnect loop last replaced
    _running,       \* StreamerClient._running
    _reconnect_task,\* StreamerClient._reconnect_task, by the position of its
                    \* _reconnect_loop: "none" | "sleep" | "backoff" | "cancelled"
    tasks,          \* the _reconnect_loop tasks created and not cancelled
    orphans,        \* connected SchwabStreamers the client no longer refers to
    login_response, \* the server's response to the current streamer's LOGIN:
                    \* "none" | "ok" | "rejected"
    frame,          \* the data frame last handed to _handle_data
    delivered,      \* the callback invocations _handle_data made for that frame
    slast,          \* the last streaming operation and how it returned
    \* ---- PortfolioManager
    _accounts,      \* account_number -> Account (the snapshot as fetched)
    _positions,     \* account_number -> (symbol -> Position)
    _orders,        \* order_id -> Order
    _executions,    \* execution_id -> ExecutionReport
    _order_callbacks, \* order_id -> list of callbacks
    _monitoring,    \* PortfolioManager._monitoring
    _monitored_orders,
    _monitored_accounts,
    loops,          \* the monitor_loop threads that are alive
    persisted,      \* the file at persistence_path: NoFile or the saved state
    refreshing,     \* the refresh_positions call that holds _lock: NoRefresh,
                    \* or the positions it has still to store
    fired,          \* the status callbacks invoked by the last _update_order
    last            \* the last ledger operation: its name, what it returned or
                    \* raised, what it was given, and the (account, symbol) pairs
                    \* held before it that Transport's answer no longer lists

taskVars == <<tasks, orphans, login_response>>
streamVars == <<streamer, replaced, _running, _reconnect_task, taskVars, frame, delivered,
                slast>>
auxVars == <<persisted, refreshing>>
ledgerVars == <<_accounts, _positions, _orders, _executions, _order_callbacks,
                _monitoring, _monitored_orders, _monitored_accounts, loops, auxVars,
                fired, last>>
vars == <<streamVars, ledgerVars>>

(***************************************************************************)
(* Generic helpers: Python dicts are functions on a finite key set.        *)
(***************************************************************************)
None == "None"

EmptyDict == [k \in {} |-> None]

DictSet(d, k, v) == [x \in DOMAIN d \cup {k} |-> IF x = k THEN v ELSE d[x]]

Range(n) == [i \in 1..n |-> i - 1]

SeqsUpTo(S, n) == UNION {[1..k -> S] : k \in 0..n}

(***************************************************************************)
(*                       schwab/streaming.py                               *)
(***************************************************************************)
QUOTE == "QUOTE"
OPTION == "OPTION"
LEVELONE_EQUITIES == "LEVELONE_EQUITIES"

\* the services that have a subscribe_* method
Services == {QUOTE, OPTION, LEVELONE_EQUITIES}

\* list(range(52)), list(range(41)), list(range(30)): the default field lists
QuoteFieldCount == 52
OptionFieldCount == 41
LevelOneFieldCount == 30

DefaultFields(service) ==
    CASE service = QUOTE -> Range(QuoteFieldCount)
      [] service = OPTION -> Range(OptionFieldCount)
      [] OTHER -> Range(LevelOneFieldCount)

\* ---- bounds of the streaming model
MaxRequests == 4       \* requests one SchwabStreamer sends (request_id)
MaxFrameItems == 2     \* items in one data frame
MaxCallbacks == 2      \* callbacks registered for one service / one order
MaxTasks == 2          \* _reconnect_loop tasks, and abandoned connections, alive at once

\* ---- inputs; a fields list of <<>> is fields omitted (None)
StreamCallbacks == {"cbOk", "cbRaise"}  \* cbRaise raises an Exception when called

\* StreamerClient.streamer before the first _connect
NoStreamer == [is_none |-> TRUE]

\* SchwabStreamer.__init__
NewStreamer ==
    [is_connected |-> FALSE, websocket |-> None, request_id |-> 0,
     subscriptions |-> EmptyDict, callbacks |-> EmptyDict, sent |-> <<>>,
     _heartbeat_task |-> "none", _receive_task |-> "none"]

\* SchwabStreamer.add_callback
add_callback(s, service, callback) ==
    [s EXCEPT !.callbacks =
        DictSet(@, service,
                (IF service \in DOMAIN @ THEN @[service] ELSE <<>>) \o <<callback>>)]

\* SchwabStreamer._get_request_id followed by _send_request: the request id is
\* taken while the request is built, before the send can fail.  The result is
\* the streamer and whether the send raised (no socket, or a closed one).
\* ",".join(symbols) is kept as the list it joins.
_send_request(s, request) ==
    LET s1 == [s EXCEPT !.request_id = @ + 1] IN
    IF s.websocket = "open"
    THEN [s |-> [s1 EXCEPT !.sent = Append(@, request)], raised |-> FALSE]
    ELSE [s |-> s1, raised |-> TRUE]

\* SchwabStreamer.connect: ok = the socket opens and LOGIN is sent
connect(s, ok) ==
    IF s.is_connected THEN [s |-> s, raised |-> FALSE]
    ELSE IF ~ok THEN [s |-> s, raised |-> TRUE]
    ELSE LET r == _send_request([s EXCEPT !.websocket = "open"],
                                [command |-> "LOGIN", service |-> "ADMIN",
                                 keys |-> <<>>, fields |-> <<>>])
         IN [s |-> [r.s EXCEPT !._heartbeat_task = "running", !._receive_task = "running",
                               !.is_connected = TRUE],
             raised |-> FALSE]

\* SchwabStreamer.subscribe_quote / subscribe_option / subscribe_level_one_equity
subscribe(s, service, symbols, fields, callback) ==
    LET fields1 == IF fields = <<>> THEN DefaultFields(service) ELSE fields
        s1 == IF callback # None THEN add_callback(s, service, callback) ELSE s
        r == _send_request(s1, [command |-> "SUBS", service |-> service,
                                keys |-> symbols, fields |-> fields1])
    IN IF r.raised THEN r
       ELSE [s |-> [r.s EXCEPT !.subscriptions =
                        DictSet(@, service, [symbols |-> symbols, fields |-> fields1])],
             raised |-> FALSE]

\* StreamerClient._restore_subscriptions, on the streamer the client now holds:
\* only QUOTE and OPTION entries are replayed ("Add other services as needed").
\* The entries are visited QUOTE first; a raising send ends the replay.
_restore_subscriptions(s) ==
    LET subs == s.subscriptions      \* self.streamer.subscriptions.copy()
        r1 == IF QUOTE \in DOMAIN subs
              THEN subscribe(s, QUOTE, subs[QUOTE].symbols, subs[QUOTE].fields, None)
              ELSE [s |-> s, raised |-> FALSE]
    IN IF r1.raised THEN r1
       ELSE IF OPTION \in DOMAIN subs
            THEN subscribe(r1.s, OPTION, subs[OPTION].symbols, subs[OPTION].fields, None)
            ELSE r1

\* an unsubscribe that keeps the service's entry when no symbol remains
unsubscribeKeepingEntry(s, service, symbols, omitted) ==
    IF service \notin DOMAIN s.subscriptions THEN [s |-> s, raised |-> FALSE]
    ELSE LET tracked == s.subscriptions[service].symbols
             keys == IF omitted THEN tracked ELSE symbols
             r == _send_request(s, [command |-> "UNSUBS", service |-> service,
                                    keys |-> keys, fields |-> <<>>])
             remaining == SelectSeq(tracked, LAMBDA x : \A i \in DOMAIN keys : keys[i] # x)
         IN IF r.raised THEN r
            ELSE [s |-> [r.s EXCEPT !.subscriptions[service].symbols = remaining],
                  raised |-> FALSE]

\* SchwabStreamer.unsubscribe; omitted = symbols is None
unsubscribe(s, service, symbols, omitted) ==
    IF service \notin DOMAIN s.subscriptions THEN [s |-> s, raised |-> FALSE]
    ELSE LET tracked == s.subscriptions[service].symbols
             keys == IF omitted THEN tracked ELSE symbols
             r == _send_request(s, [command |-> "UNSUBS", service |-> service,
                                    keys |-> keys, fields |-> <<>>])
             remaining == SelectSeq(tracked, LAMBDA x : \A i \in DOMAIN keys : keys[i] # x)
         IN IF r.raised THEN r
            ELSE [s |-> [r.s EXCEPT !.subscriptions =
                             IF remaining # <<>>
                             THEN [@ EXCEPT ![service].symbols = remaining]
                             ELSE [x \in DOMAIN @ \ {service} |-> @[x]]],
                  raised |-> FALSE]

\* SchwabStreamer.disconnect; logout_ok = the LOGOUT send does not fail
disconnect(s, logout_ok) ==
    IF ~s.is_connected THEN s
    ELSE LET s1 == [s EXCEPT !.is_connected = FALSE,
                             !._heartbeat_task = IF @ = "none" THEN @ ELSE "cancelled",
                             !._receive_task = IF @ = "none" THEN @ ELSE "cancelled"]
             r == IF logout_ok
                  THEN _send_request(s1, [command |-> "LOGOUT", service |-> "ADMIN",
                                          keys |-> <<>>, fields |-> <<>>])
                  ELSE [s |-> [s1 EXCEPT !.request_id = @ + 1], raised |-> TRUE]
         IN \* except: pass; then "if self.websocket: close(); self.websocket = None"
            [r.s EXCEPT !.websocket = None]

\* what calling a registered callback does
\* (cbSlow has not returned yet when the caller is looked at next; cbReenter
\* is an order callback that calls cancel_order of the ledger for its order)
Invoke(callback) ==
    IF callback = "cbRaise" THEN "raise"
    ELSE IF callback = "cbSlow" THEN "pending"
    ELSE IF callback = "cbReenter" THEN "reenter" ELSE "return"

\* the inner loop of _handle_data: each callback is called in a try/except
\* Exception that logs and goes on to the next callback
RECURSIVE CallEach(_, _, _)
CallEach(cbs, service, content) ==
    IF cbs = <<>> THEN <<>>
    ELSE LET call == [callback |-> Head(cbs), service |-> service, content |-> content]
             outcome == Invoke(Head(cbs))
         IN IF outcome = "raise"
            THEN <<call>> \o CallEach(Tail(cbs), service, content)   \* except: logger.error
            ELSE <<call>> \o CallEach(Tail(cbs), service, content)

\* the same loop without the try/except: the first raising callback ends it
RECURSIVE CallUntilRaise(_, _, _)
CallUntilRaise(cbs, service, content) ==
    IF cbs = <<>> THEN [calls |-> <<>>, raised |-> FALSE]
    ELSE LET call == [callback |-> Head(cbs), service |-> service, content |-> content]
         IN IF Invoke(Head(cbs)) = "raise"
            THEN [calls |-> <<call>>, raised |-> TRUE]
            ELSE LET rest == CallUntilRaise(Tail(cbs), service, content)
                 IN [calls |-> <<call>> \o rest.calls, raised |-> rest.raised]

RECURSIVE HandleDataUnisolated(_, _)
HandleDataUnisolated(callbacks, data_list) ==
    IF data_list = <<>> THEN <<>>
    ELSE LET data == Head(data_list)
             r == IF data.service \in DOMAIN callbacks
                  THEN CallUntilRaise(callbacks[data.service], data.service, data.content)
                  ELSE [calls |-> <<>>, raised |-> FALSE]
         IN IF r.raised THEN r.calls
            ELSE r.calls \o HandleDataUnisolated(callbacks, Tail(data_list))

\* SchwabStreamer._handle_data: the invocations made, in order
RECURSIVE _handle_data(_, _)
_handle_data(callbacks, data_list) ==
    IF data_list = <<>> THEN <<>>
    ELSE LET data == Head(data_list)
         IN (IF data.service \in DOMAIN callbacks
             THEN CallEach(callbacks[data.service], data.service, data.content)
             ELSE <<>>)
            \o _handle_data(callbacks, Tail(data_list))

\* data frames: item i of a frame carries content i
Contents == 1..MaxFrameItems
Frames == {f \in SeqsUpTo([service : Services, content : Contents], MaxFrameItems) :
              \A i \in DOMAIN f : f[i].content = i}

\* the subscribe calls of the connection specification ...
SubscribeArgs ==
    {[service |-> sv, symbols |-> <<"AAPL">>, fields |-> <<>>, callback |-> "cbRaise"] :
        sv \in Services}
    \cup
    {[service |-> sv, symbols |-> <<"MSFT", "AAPL">>, fields |-> <<0, 1>>,
      callback |-> "cbOk"] : sv \in Services}
    \cup
    {[service |-> QUOTE, symbols |-> <<"MSFT">>, fields |-> <<>>, callback |-> None]}

\* ... and of the supervisor specification
SupervisorSubscribeArgs ==
    {[service |-> QUOTE, symbols |-> <<"AAPL">>, fields |-> <<>>, callback |-> "cbOk"],
     [service |-> OPTION, symbols |-> <<"MSFT", "AAPL">>, fields |-> <<0, 1>>,
      callback |-> "cbRaise"],
     [service |-> LEVELONE_EQUITIES, symbols |-> <<"AAPL">>, fields |-> <<>>,
      callback |-> None]}

\* StreamerClient.start: _connect (a new SchwabStreamer replaces self.streamer,
\* whatever became of the old one), then a reconnect task is created
Start(ok) ==
    /\ tasks < MaxTasks /\ orphans < MaxTasks
    /\ LET r == connect(NewStreamer, ok) IN
       /\ streamer' = r.s
       /\ _running' = TRUE
       /\ _reconnect_task' = IF r.raised THEN _reconnect_task ELSE "sleep"
       /\ tasks' = IF r.raised THEN tasks ELSE tasks + 1
       /\ slast' = [op |-> "start", raised |-> r.raised]
    /\ orphans' = IF streamer # NoStreamer /\ streamer.is_connected
                  THEN orphans + 1 ELSE orphans
    /\ login_response' = "none"
    /\ frame' = <<>> /\ delivered' = <<>>
    /\ UNCHANGED <<replaced, ledgerVars>>

\* StreamerClient.subscribe_quote / subscribe_option (a no-op without a
\* streamer) and SchwabStreamer.subscribe_level_one_equity on client.streamer
Subscribe(c) ==
    /\ c.service = LEVELONE_EQUITIES => streamer # NoStreamer
    /\ IF streamer = NoStreamer
       THEN UNCHANGED streamer /\ slast' = [op |-> "subscribe", raised |-> FALSE]
       ELSE /\ streamer.request_id < MaxRequests
            /\ c.callback # None =>
                  (c.service \in DOMAIN streamer.callbacks =>
                      Len(streamer.callbacks[c.service]) < MaxCallbacks)
            /\ LET r == subscribe(streamer, c.service, c.symbols, c.fields, c.callback) IN
               /\ streamer' = r.s
               /\ slast' = [op |-> "subscribe", raised |-> r.raised]
    /\ frame' = <<>> /\ delivered' = <<>>
    /\ UNCHANGED <<replaced, _running, _reconnect_task, taskVars, ledgerVars>>

\* _receive_loop: websockets.exceptions.ConnectionClosed
ConnectionClosed ==
    /\ streamer # NoStreamer /\ streamer.is_connected
    /\ streamer' = [streamer EXCEPT !.is_connected = FALSE, !.websocket = "closed",
                                    !._receive_task = "done"]
    /\ slast' = [op |-> "closed", raised |-> FALSE]
    /\ frame' = <<>> /\ delivered' = <<>>
    /\ UNCHANGED <<replaced, _running, _reconnect_task, taskVars, ledgerVars>>

\* "callback(service, content)" is a plain call made by the receive loop's
\* coroutine: the calls of a frame that have been made when the call after
\* the first `done` calls that has not returned yet is running
RunUntilPending(calls, done) ==
    LET stops == {k \in (done + 1)..Len(calls) : Invoke(calls[k].callback) = "pending"}
    IN IF stops = {} THEN calls
       ELSE SubSeq(calls, 1, CHOOSE k \in stops : \A j \in stops : k <= j)

\* the receive loop's coroutine is inside a callback that has not returned
InCallback(calls, done) ==
    /\ Len(calls) > done
    /\ Invoke(calls[Len(calls)].callback) = "pending"

\* _receive_loop: a frame with a "data" envelope is read by "await
\* self.websocket.recv()" and handed to _handle_data
ReceiveData(f) ==
    /\ streamer # NoStreamer /\ streamer.is_connected /\ streamer.websocket = "open"
    /\ streamer._receive_task = "running"
    /\ frame' = f
    /\ delivered' = RunUntilPending(_handle_data(streamer.callbacks, f), 0)
    /\ streamer' = IF InCallback(delivered', 0)
                   THEN [streamer EXCEPT !._receive_task = "in_callback"] ELSE streamer
    /\ slast' = [op |-> "data", raised |-> FALSE]
    /\ UNCHANGED <<replaced, _running, _reconnect_task, taskVars, ledgerVars>>

\* the callback the receive loop is in returns: _handle_data goes on with the
\* remaining callbacks and items, and then the loop with the next recv()
CallbackReturns ==
    /\ streamer # NoStreamer /\ streamer._receive_task = "in_callback"
    /\ delivered' = RunUntilPending(_handle_data(streamer.callbacks, frame), Len(delivered))
    /\ streamer' = IF InCallback(delivered', Len(delivered))
                   THEN streamer ELSE [streamer EXCEPT !._receive_task = "running"]
    /\ slast' = [op |-> "callback_returns", raised |-> FALSE]
    /\ UNCHANGED <<frame, replaced, _running, _reconnect_task, taskVars, ledgerVars>>

\* an iteration of the loop whose failure ends the loop
ReconnectFatal(ok) ==
    /\ _running /\ _reconnect_task = "sleep"
    /\ streamer = NoStreamer \/ ~streamer.is_connected
    /\ LET c == connect(NewStreamer, ok)
           r == IF c.raised THEN c ELSE _restore_subscriptions(c.s)
       IN /\ streamer' = r.s
          /\ replaced' = streamer
          /\ _reconnect_task' = IF r.raised THEN "none" ELSE "sleep"
          /\ slast' = [op |-> "reconnect", raised |-> r.raised]
    /\ login_response' = "none"
    /\ frame' = <<>> /\ delivered' = <<>>
    /\ UNCHANGED <<_running, tasks, orphans, ledgerVars>>

\* an iteration of the loop whose failure is followed by the next poll
ReconnectEager(ok) ==
    /\ _running /\ _reconnect_task = "sleep"
    /\ streamer = NoStreamer \/ ~streamer.is_connected
    /\ LET c == connect(NewStreamer, ok)
           r == IF c.raised THEN c ELSE _restore_subscriptions(c.s)
       IN /\ streamer' = r.s
          /\ replaced' = streamer
          /\ _reconnect_task' = "sleep"
          /\ slast' = [op |-> "reconnect", raised |-> r.raised]
    /\ login_response' = "none"
    /\ frame' = <<>> /\ delivered' = <<>>
    /\ UNCHANGED <<_running, tasks, orphans, ledgerVars>>

\* one iteration of _reconnect_loop that finds the connection lost:
\* _connect (a new SchwabStreamer replaces self.streamer, then connect()),
\* then _restore_subscriptions; any exception is logged and the loop backs off
Reconnect(ok) ==
    /\ _running /\ _reconnect_task = "sleep"
    /\ streamer = NoStreamer \/ ~streamer.is_connected
    /\ LET c == connect(NewStreamer, ok)
           r == IF c.raised THEN c ELSE _restore_subscriptions(c.s)
       IN /\ streamer' = r.s
          /\ replaced' = streamer
          /\ _reconnect_task' = IF r.raised THEN "backoff" ELSE "sleep"
          /\ slast' = [op |-> "reconnect", raised |-> r.raised]
    /\ login_response' = "none"
    /\ frame' = <<>> /\ delivered' = <<>>
    /\ UNCHANGED <<_running, tasks, orphans, ledgerVars>>

\* the _reconnect_loop tasks that self._reconnect_task no longer refers to:
\* start() overwrites the reference, stop() cancels only the task it refers to
OrphanTasks == tasks - (IF _reconnect_task \in {"sleep", "backoff"} THEN 1 ELSE 0)

\* one iteration of such a task: it passed "while self._running" before its
\* sleep(5) and does not test the flag again before _connect; the flag is
\* tested when the iteration (and, after an exception, the sleep(30)) is over
OrphanReconnect(ok) ==
    /\ OrphanTasks > 0
    /\ IF streamer = NoStreamer \/ ~streamer.is_connected
       THEN LET c == connect(NewStreamer, ok)
                r == IF c.raised THEN c ELSE _restore_subscriptions(c.s)
            IN /\ streamer' = r.s
               /\ replaced' = streamer
               /\ login_response' = "none"
               /\ slast' = [op |-> "orphan_reconnect", raised |-> r.raised]
       ELSE /\ UNCHANGED <<streamer, replaced, login_response>>
            /\ slast' = [op |-> "orphan_reconnect", raised |-> FALSE]
    /\ tasks' = IF _running THEN tasks ELSE tasks - 1
    /\ frame' = <<>> /\ delivered' = <<>>
    /\ UNCHANGED <<_running, _reconnect_task, orphans, ledgerVars>>

\* await asyncio.sleep(30) after a failed iteration
BackoffElapsed ==
    /\ _running /\ _reconnect_task = "backoff"
    /\ _reconnect_task' = "sleep"
    /\ slast' = [op |-> "backoff", raised |-> FALSE]
    /\ frame' = <<>> /\ delivered' = <<>>
    /\ UNCHANGED <<streamer, replaced, _running, taskVars, ledgerVars>>

\* the socket of a connected streamer fails in a way that recv() reports with
\* an exception other than ConnectionClosed
SocketError ==
    /\ streamer # NoStreamer /\ streamer.is_connected /\ streamer.websocket = "open"
    /\ streamer' = [streamer EXCEPT !.websocket = "broken"]
    /\ slast' = [op |-> "socket_error", raised |-> FALSE]
    /\ frame' = <<>> /\ delivered' = <<>>
    /\ UNCHANGED <<replaced, _running, _reconnect_task, taskVars, ledgerVars>>

\* _receive_loop: "except Exception" (and json.JSONDecodeError): the error is
\* logged and the loop goes on to the next recv()
ReceiveError ==
    /\ streamer # NoStreamer /\ streamer.is_connected /\ streamer.websocket = "broken"
    /\ streamer._receive_task = "running"
    /\ slast' = [op |-> "recv_error", raised |-> FALSE]
    /\ frame' = <<>> /\ delivered' = <<>>
    /\ UNCHANGED <<streamer, replaced, _running, _reconnect_task, taskVars, ledgerVars>>

\* one iteration of _heartbeat_loop: the QOS request is built and sent; a
\* send that raises is logged and the loop goes on
Heartbeat ==
    /\ streamer # NoStreamer /\ streamer.is_connected
    /\ streamer._heartbeat_task = "running"
    /\ streamer.request_id < MaxRequests
    /\ LET r == _send_request(streamer, [command |-> "QOS", service |-> "ADMIN",
                                         keys |-> <<>>, fields |-> <<>>])
       IN /\ streamer' = r.s
          /\ slast' = [op |-> "heartbeat", raised |-> r.raised]
    /\ frame' = <<>> /\ delivered' = <<>>
    /\ UNCHANGED <<replaced, _running, _reconnect_task, taskVars, ledgerVars>>

\* StreamerClient.unsubscribe -> SchwabStreamer.unsubscribe
Unsubscribe(c) ==
    /\ IF streamer = NoStreamer
       THEN UNCHANGED streamer
            /\ slast' = [op |-> "unsubscribe", raised |-> FALSE, arg |-> c]
       ELSE /\ streamer.request_id < MaxRequests
            /\ LET r == unsubscribe(streamer, c.service, c.symbols, c.omitted) IN
               /\ streamer' = r.s
               /\ slast' = [op |-> "unsubscribe", raised |-> r.raised, arg |-> c]
    /\ frame' = <<>> /\ delivered' = <<>>
    /\ UNCHANGED <<replaced, _running, _reconnect_task, taskVars, ledgerVars>>

\* StreamerClient.stop
Stop(logout_ok) ==
    /\ _running' = FALSE
    /\ IF _reconnect_task \in {"sleep", "backoff"}
       THEN _reconnect_task' = "cancelled" /\ tasks' = tasks - 1
       ELSE UNCHANGED <<_reconnect_task, tasks>>
    /\ streamer' = IF streamer = NoStreamer THEN streamer
                   ELSE disconnect(streamer, logout_ok)
    /\ slast' = [op |-> "stop", raised |-> FALSE]
    /\ frame' = <<>> /\ delivered' = <<>>
    /\ UNCHANGED <<replaced, orphans, login_response, ledgerVars>>

\* _receive_loop: the "response" frame that answers LOGIN reaches
\* _handle_response, which logs it
ReceiveLoginResponse(code) ==
    /\ streamer # NoStreamer /\ streamer.is_connected /\ streamer.websocket = "open"
    /\ login_response = "none"
    /\ login_response' = code
    /\ slast' = [op |-> "response", raised |-> FALSE]
    /\ frame' = <<>> /\ delivered' = <<>>
    /\ UNCHANGED <<streamer, replaced, _running, _reconnect_task, tasks, orphans,
                   ledgerVars>>

StreamInit ==
    /\ streamer = NoStreamer
    /\ replaced = NoStreamer
    /\ _running = FALSE
    /\ _reconnect_task = "none"
    /\ tasks = 0
    /\ orphans = 0
    /\ login_response = "none"
    /\ frame = <<>>
    /\ delivered = <<>>
    /\ slast = [op |-> "init", raised |-> FALSE]

(***************************************************************************)
(*                       schwab/portfolio.py                               *)
(***************************************************************************)
AccountNumbers == {"A1", "A2"}

\* An attribute an object does not have (hasattr is False); None is an
\* attribute that is present and None.
Absent == "<absent>"

\* A position: its instrument's symbol, its instrument's root's symbol, its
\* description (a list of words, <<>> when missing or empty), its cusip, and
\* its long quantity.
Position(symbol, root_symbol, description, cusip, long_quantity) ==
    [symbol |-> symbol, root_symbol |-> root_symbol, description |-> description,
     cusip |-> cusip, long_quantity |-> long_quantity]

PosAAPL(quantity) == Position("AAPL", Absent, <<>>, Absent, quantity)
PosSPY == Position(Absent, "SPY", <<>>, Absent, 1)
PosTSLA == Position(Absent, Absent, <<"TSLA", "INC">>, "88160R101", 5)
PosCusip == Position(Absent, Absent, <<>>, "037833100", 2)
PosNoneSymbol == Position(None, Absent, <<"ACME", "CORP">>, Absent, 3)
PosBare == Position(Absent, Absent, <<>>, Absent, 4)

\* Account snapshots as Transport returns them: securities_account.positions
Snapshots ==
    [positions : {<<>>, <<PosAAPL(10)>>, <<PosAAPL(20), PosSPY>>, <<PosSPY, PosTSLA>>,
                  <<PosCusip, PosNoneSymbol, PosBare>>}]

\* a Transport call that raises
Fail == [raises |-> TRUE]

\* no file at persistence_path
NoFile == [exists |-> FALSE]

\* no refresh_positions call is between its clearing of a map and its end
NoRefresh == [in_progress |-> FALSE]

\* Python truthiness of an extracted symbol
Truthy(symbol) == symbol # None /\ symbol # "" /\ symbol # Absent

\* PortfolioManager._extract_symbol_from_position: the first attribute that is
\* present decides, whatever its value
_extract_symbol_from_position(position) ==
    IF position.symbol # Absent THEN position.symbol
    ELSE IF position.root_symbol # Absent THEN position.root_symbol
    ELSE IF position.description # <<>> THEN Head(position.description)
    ELSE IF position.cusip # Absent THEN "CUSIP:" \o position.cusip
    ELSE None

\* the symbol refresh_positions_async derives (securities_account variant):
\* instrument.symbol, else instrument.root.symbol
ExtractSymbolAsync(position) ==
    IF position.symbol # Absent THEN position.symbol
    ELSE IF position.root_symbol # Absent THEN position.root_symbol
    ELSE None

\* the loop "for position in positions_list: if symbol: map[symbol] = position"
RECURSIVE StorePositions(_, _)
StorePositions(map, positions_list) ==
    IF positions_list = <<>> THEN map
    ELSE LET symbol == _extract_symbol_from_position(Head(positions_list))
         IN StorePositions(IF Truthy(symbol) THEN DictSet(map, symbol, Head(positions_list))
                           ELSE map,
                           Tail(positions_list))

RECURSIVE StorePositionsAsync(_, _)
StorePositionsAsync(map, positions_list) ==
    IF positions_list = <<>> THEN map
    ELSE LET symbol == ExtractSymbolAsync(Head(positions_list))
         IN StorePositionsAsync(IF Truthy(symbol)
                                THEN DictSet(map, symbol, Head(positions_list))
                                ELSE map,
                                Tail(positions_list))

\* a refresh that fills the account's existing map instead of a fresh one
MergedPositions(old, account) == StorePositions(old, account.positions)

\* refresh_positions / update / add_account: self._positions[account_number] = {}
\* and then one entry per position with an extractable symbol
RefreshedPositions(old, account) == StorePositions(EmptyDict, account.positions)

\* refresh_positions_async: the same with its own symbol extraction
RefreshedPositionsAsync(old, account) == StorePositionsAsync(EmptyDict, account.positions)

\* an account whose failed fetch is skipped over but whose maps are cleared
ApplyFetchClearing(st, account_number, fetched) ==
    IF fetched = Fail
    THEN [accounts |-> st.accounts,
          positions |-> DictSet(st.positions, account_number, EmptyDict)]
    ELSE [accounts |-> DictSet(st.accounts, account_number, fetched),
          positions |-> DictSet(st.positions, account_number,
                                RefreshedPositions(st.positions[account_number], fetched))]

\* the body of refresh_positions' loop for one account: the fetch is inside
\* the try, so a raising get_account leaves both maps as they are
ApplyFetch(st, account_number, fetched) ==
    IF fetched = Fail THEN st
    ELSE [accounts |-> DictSet(st.accounts, account_number, fetched),
          positions |-> DictSet(st.positions, account_number,
                                RefreshedPositions(st.positions[account_number], fetched))]

ApplyFetchAsync(st, account_number, fetched) ==
    IF fetched = Fail THEN st
    ELSE [accounts |-> DictSet(st.accounts, account_number, fetched),
          positions |-> DictSet(st.positions, account_number,
                                RefreshedPositionsAsync(st.positions[account_number], fetched))]

\* "for account_number in self._accounts": the accounts in an order
RECURSIVE RefreshAll(_, _, _)
RefreshAll(st, todo, fetched) ==
    IF todo = {} THEN st
    ELSE LET a == CHOOSE x \in todo : TRUE
         IN RefreshAll(ApplyFetch(st, a, fetched[a]), todo \ {a}, fetched)

RECURSIVE RefreshAllAsync(_, _, _)
RefreshAllAsync(st, todo, fetched) ==
    IF todo = {} THEN st
    ELSE LET a == CHOOSE x \in todo : TRUE
         IN RefreshAllAsync(ApplyFetchAsync(st, a, fetched[a]), todo \ {a}, fetched)

\* ---- the lock and the Transport calls of an operation, in program order
Acquire == "acquire"   \* entering "with self._lock"
Release == "release"   \* leaving it
Write == "write"       \* an assignment into, or an append to, a map of the ledger
TransportCalls == {"get_account", "get_order", "get_orders", "place_order", "cancel_order"}

\* the lock is held at the i-th event of an operation
Held(events, i) ==
    Cardinality({j \in 1..(i - 1) : events[j] = Acquire})
        > Cardinality({j \in 1..(i - 1) : events[j] = Release})

\* threading.Lock is not reentrant: a thread whose operation ended inside the
\* lock waits in it for ever, and so does every later "with self._lock"
LockStuck == "events" \in DOMAIN last /\ Held(last.events, Len(last.events) + 1)

\* refresh_positions: per account, get_account and then the commit under the lock
RECURSIVE RefreshEvents(_, _)
RefreshEvents(todo, fetched) ==
    IF todo = {} THEN <<>>
    ELSE LET a == CHOOSE x \in todo : TRUE
         IN <<"get_account">>
            \o (IF fetched[a] = Fail THEN <<>> ELSE <<Acquire, Write, Release>>)
            \o RefreshEvents(todo \ {a}, fetched)

\* update: "with self._lock:" around the whole loop and its get_account calls
RECURSIVE UpdateFetches(_, _)
UpdateFetches(todo, fetched) ==
    IF todo = {} THEN <<>>
    ELSE LET a == CHOOSE x \in todo : TRUE
         IN <<"get_account">> \o (IF fetched[a] = Fail THEN <<>> ELSE <<Write>>)
            \o UpdateFetches(todo \ {a}, fetched)

UpdateEvents(todo, fetched) == <<Acquire>> \o UpdateFetches(todo, fetched) \o <<Release>>

\* _update_order: get_order, then the commit under the lock; a callback that
\* calls cancel_order from inside the lock reaches _update_order's "with
\* self._lock" again
UpdateOrderEvents(order, blocked) ==
    <<"get_order">>
    \o (IF order = Fail THEN <<>>
        ELSE IF blocked THEN <<Acquire, Write, "cancel_order", "get_order", Acquire>>
        ELSE <<Acquire, Write, Release>>)

Ledger == [accounts |-> _accounts, positions |-> _positions]

\* the symbols an account holds that its newly fetched snapshot does not have
SnapshotSymbols(account) ==
    {symbol \in {_extract_symbol_from_position(account.positions[i]) :
                    i \in DOMAIN account.positions} : Truthy(symbol)}

Stale(fetched) ==
    {<<a, symbol>> \in AccountNumbers \X UNION {DOMAIN _positions[x] : x \in DOMAIN _positions} :
        /\ a \in DOMAIN fetched /\ fetched[a] # Fail
        /\ symbol \in DOMAIN _positions[a]
        /\ symbol \notin SnapshotSymbols(fetched[a])}

\* PortfolioManager.add_account / add_account_async
add_account(account_number, fetched) ==
    /\ IF account_number \in DOMAIN _accounts
       THEN \* "already in portfolio": returns before any fetch
            /\ UNCHANGED <<_accounts, _positions, _monitored_accounts>>
            /\ last' = [op |-> "add_account", ret |-> None, raised |-> "",
                        arg |-> DictSet(EmptyDict, account_number, fetched), stale |-> {},
                        events |-> <<>>]
       ELSE IF fetched = Fail
       THEN \* get_account raises out of add_account
            /\ UNCHANGED <<_accounts, _positions, _monitored_accounts>>
            /\ last' = [op |-> "add_account", ret |-> None, raised |-> "Exception",
                        arg |-> DictSet(EmptyDict, account_number, fetched), stale |-> {},
                        events |-> <<"get_account">>]
       ELSE /\ _accounts' = DictSet(_accounts, account_number, fetched)
            /\ _positions' = DictSet(_positions, account_number,
                                     RefreshedPositions(EmptyDict, fetched))
            /\ _monitored_accounts' = _monitored_accounts \cup {account_number}
            /\ last' = [op |-> "add_account", ret |-> None, raised |-> "",
                        arg |-> DictSet(EmptyDict, account_number, fetched), stale |-> {},
                        events |-> <<"get_account", Acquire, Write, Release>>]
    /\ fired' = <<>>
    /\ UNCHANGED <<_orders, _executions, _order_callbacks, _monitoring,
                   _monitored_orders, loops, auxVars, streamVars>>

\* PortfolioManager.refresh_positions; fetched[a] is what get_account(a)
\* returns, or Fail when it raises
refresh_positions(fetched) ==
    /\ LET st == RefreshAll(Ledger, DOMAIN _accounts, fetched) IN
       /\ _accounts' = st.accounts
       /\ _positions' = st.positions
    /\ last' = [op |-> "refresh_positions", ret |-> None, raised |-> "", arg |-> fetched,
                stale |-> Stale(fetched),
                events |-> RefreshEvents(DOMAIN _accounts, fetched)]
    /\ fired' = <<>>
    /\ UNCHANGED <<_orders, _executions, _order_callbacks, _monitoring,
                   _monitored_orders, _monitored_accounts, loops, auxVars, streamVars>>

\* PortfolioManager.refresh_positions_async
refresh_positions_async(fetched) ==
    /\ LET st == RefreshAllAsync(Ledger, DOMAIN _accounts, fetched) IN
       /\ _accounts' = st.accounts
       /\ _positions' = st.positions
    /\ last' = [op |-> "refresh_positions_async", ret |-> None, raised |-> "", arg |-> fetched,
                stale |-> Stale(fetched),
                events |-> RefreshEvents(DOMAIN _accounts, fetched)]
    /\ fired' = <<>>
    /\ UNCHANGED <<_orders, _executions, _order_callbacks, _monitoring,
                   _monitored_orders, _monitored_accounts, loops, auxVars, streamVars>>

\* PortfolioManager.update: the same per-account replacement, under the lock
update(fetched) ==
    /\ LET st == RefreshAll(Ledger, DOMAIN _accounts, fetched) IN
       /\ _accounts' = st.accounts
       /\ _positions' = st.positions
    /\ last' = [op |-> "update", ret |-> None, raised |-> "", arg |-> fetched,
                stale |-> Stale(fetched), events |-> UpdateEvents(DOMAIN _accounts, fetched)]
    /\ fired' = <<>>
    /\ UNCHANGED <<_orders, _executions, _order_callbacks, _monitoring,
                   _monitored_orders, _monitored_accounts, loops, auxVars, streamVars>>

\* the positions map a quote delta leaves behind if it creates the symbol's entry
QuoteCreatesPosition(positions, symbol, quote) ==
    [a \in DOMAIN positions |-> DictSet(positions[a], symbol, quote)]

\* PortfolioManager._update_position_quote: logs the quote, nothing else
PositionsAfterQuote(positions, symbol, quote) == positions

QuoteSymbols == {"AAPL", "NVDA"}

_update_position_quote(symbol, quote) ==
    /\ _positions' = PositionsAfterQuote(_positions, symbol, quote)
    /\ last' = [op |-> "_update_position_quote", ret |-> None, raised |-> "",
                arg |-> DictSet(EmptyDict, symbol, quote), stale |-> {}]
    /\ fired' = <<>>
    /\ UNCHANGED <<_accounts, _orders, _executions, _order_callbacks, _monitoring,
                   _monitored_orders, _monitored_accounts, loops, auxVars, streamVars>>

\* the sum of a dict's values over some of its keys
RECURSIVE SumOver(_, _)
SumOver(f, keys) ==
    IF keys = {} THEN 0
    ELSE LET k == CHOOSE x \in keys : TRUE IN f[k] + SumOver(f, keys \ {k})

\* ---- valuation: amounts are exact decimals; the inputs are whole amounts
\* a position with its quantities, its average price and its market value;
\* last_price is instrument.last_price, 0 when the instrument has none
PricedPosition(symbol, long_quantity, short_quantity, average_price, market_value, last_price) ==
    [symbol |-> symbol, root_symbol |-> Absent, description |-> <<>>, cusip |-> Absent,
     long_quantity |-> long_quantity, short_quantity |-> short_quantity,
     average_price |-> average_price, market_value |-> market_value,
     last_price |-> last_price]

\* account snapshots with their type and balances; a balance that is None or
\* missing is not in the balances' domain
PricedSnapshots ==
    {[positions |-> <<PricedPosition("AAPL", 10, 0, 100, 1500, 0)>>,
      type |-> "MARGIN", current_balances |-> [available_funds |-> 500]],
     [positions |-> <<PricedPosition("AAPL", 5, 0, 120, 0, 130),
                      PricedPosition("SPY", 0, 2, 400, 0 - 800, 0)>>,
      type |-> "CASH", current_balances |-> [total_cash |-> 200]],
     [positions |-> <<PricedPosition("MSFT", 3, 0, 200, 900, 0)>>,
      type |-> "CASH",
      current_balances |-> [cash_available_for_trading |-> 300, total_cash |-> 999]],
     [positions |-> <<>>, type |-> "IRA", current_balances |-> [available_funds |-> 700]]}

\* PortfolioManager._extract_account_cash_balance
_extract_account_cash_balance(account) ==
    LET balances == account.current_balances IN
    IF account.type = "MARGIN"
    THEN (IF "available_funds" \in DOMAIN balances THEN balances.available_funds ELSE 0)
    ELSE IF account.type = "CASH"
    THEN (IF "cash_available_for_trading" \in DOMAIN balances
          THEN balances.cash_available_for_trading
          ELSE IF "total_cash" \in DOMAIN balances THEN balances.total_cash ELSE 0)
    ELSE 0

NetQuantity(position) == position.long_quantity - position.short_quantity

\* the market value get_portfolio_summary uses for a position: the snapshot's
\* when positive, else net quantity * last price when both are known
CountedMarketValue(position) ==
    IF position.market_value > 0 THEN position.market_value
    ELSE IF NetQuantity(position) # 0 /\ position.last_price > 0
    THEN NetQuantity(position) * position.last_price
    ELSE position.market_value

\* the symbols of a position map that the summary does not skip
CountedSymbols(positions) ==
    {symbol \in DOMAIN positions : CountedMarketValue(positions[symbol]) > 0}

RECURSIVE SumMarketValue(_, _)
SumMarketValue(positions, symbols) ==
    IF symbols = {} THEN 0
    ELSE LET symbol == CHOOSE x \in symbols : TRUE
         IN CountedMarketValue(positions[symbol])
            + SumMarketValue(positions, symbols \ {symbol})

\* an equity total that also adds what the skipped positions are worth
AccountEquityUnfiltered(positions) == SumMarketValue(positions, DOMAIN positions)

\* account_equity: the market values of the positions that are not skipped
AccountEquity(positions) == SumMarketValue(positions, CountedSymbols(positions))

\* gain_loss / cost_basis * 100, an exact quotient kept as its two terms
Pct(gain_loss, cost_basis) == [num |-> gain_loss * 100, den |-> cost_basis]

\* a new entry of positions_by_symbol
NoEntry ==
    [quantity |-> 0, market_value |-> 0, cost_basis |-> 0, gain_loss |-> 0,
     gain_loss_pct |-> [num |-> 0, den |-> 1], average_price |-> 0]

\* the aggregation of one position into its symbol's entry: quantity, market
\* value and cost basis are added to, average price, gain/loss and its
\* percentage are assigned from this position
AddToSymbol(entry, position) ==
    LET market_value == CountedMarketValue(position)
        cost_basis == position.average_price * position.long_quantity
    IN [quantity |-> entry.quantity + NetQuantity(position),
        market_value |-> entry.market_value + market_value,
        cost_basis |-> entry.cost_basis + cost_basis,
        average_price |-> position.average_price,
        gain_loss |-> IF cost_basis > 0 THEN market_value - cost_basis ELSE entry.gain_loss,
        gain_loss_pct |-> IF cost_basis > 0 THEN Pct(market_value - cost_basis, cost_basis)
                          ELSE entry.gain_loss_pct]

\* one iteration of "for account_number, account in self._accounts.items()"
SummarizeAccount(summary, account, positions) ==
    LET counted == CountedSymbols(positions)
        by_symbol == summary.positions_by_symbol
    IN [total_cash |-> summary.total_cash + _extract_account_cash_balance(account),
        total_equity |-> summary.total_equity + AccountEquity(positions),
        positions_by_symbol |->
            [symbol \in DOMAIN by_symbol \cup counted |->
                IF symbol \in counted
                THEN AddToSymbol(IF symbol \in DOMAIN by_symbol THEN by_symbol[symbol]
                                 ELSE NoEntry,
                                 positions[symbol])
                ELSE by_symbol[symbol]]]

\* the loop over the accounts, in the order the dict lists them
RECURSIVE Summarize(_, _, _, _)
Summarize(summary, accounts, positions, order) ==
    IF order = <<>> THEN summary
    ELSE Summarize(SummarizeAccount(summary, accounts[Head(order)],
                                    IF Head(order) \in DOMAIN positions
                                    THEN positions[Head(order)] ELSE EmptyDict),
                   accounts, positions, Tail(order))

\* what get_portfolio_summary returns of the valuation
PortfolioSummary(accounts, positions, order) ==
    LET s == Summarize([total_cash |-> 0, total_equity |-> 0,
                        positions_by_symbol |-> EmptyDict], accounts, positions, order)
    IN [total_value |-> s.total_equity + s.total_cash,
        total_equity |-> s.total_equity,
        total_cash |-> s.total_cash,
        positions_by_symbol |-> s.positions_by_symbol,
        accounts |-> order]

\* the orders in which a dict can list its keys
KeyOrders(keys) ==
    {order \in SeqsUpTo(keys, Cardinality(keys)) :
        Len(order) = Cardinality(keys) /\ {order[i] : i \in DOMAIN order} = keys}

\* PortfolioManager.get_portfolio_summary: a refresh of the positions when
\* accounts are watched, then the valuation of what the ledger holds
get_portfolio_summary(fetched, order) ==
    /\ LET st == IF _monitored_accounts # {}
                 THEN RefreshAll(Ledger, DOMAIN _accounts, fetched)
                 ELSE Ledger
       IN /\ _accounts' = st.accounts
          /\ _positions' = st.positions
          /\ last' = [op |-> "get_portfolio_summary",
                      ret |-> PortfolioSummary(st.accounts, st.positions, order),
                      raised |-> "", arg |-> fetched, stale |-> {},
                      events |-> IF _monitored_accounts # {}
                                 THEN RefreshEvents(DOMAIN _accounts, fetched) ELSE <<>>]
    /\ fired' = <<>>
    /\ UNCHANGED <<_orders, _executions, _order_callbacks, _monitoring,
                   _monitored_orders, _monitored_accounts, loops, auxVars, streamVars>>

\* ---- readers, and refresh_positions as the steps other threads can see
\* PortfolioManager.get_position: the symbol's totals over the accounts'
\* position maps, read without the lock; quotients are kept as their terms
GetPosition(positions, symbol) ==
    LET holders == {a \in DOMAIN positions : symbol \in DOMAIN positions[a]}
        total_quantity == SumOver([a \in holders |-> NetQuantity(positions[a][symbol])],
                                  holders)
        total_market_value == SumOver([a \in holders |-> positions[a][symbol].market_value],
                                      holders)
        total_cost_basis ==
            SumOver([a \in holders |-> positions[a][symbol].average_price
                                          * positions[a][symbol].long_quantity], holders)
    IN [symbol |-> symbol, quantity |-> total_quantity,
        market_value |-> total_market_value, cost_basis |-> total_cost_basis,
        average_price |-> IF total_quantity > 0
                          THEN [num |-> total_cost_basis, den |-> total_quantity]
                          ELSE [num |-> 0, den |-> 1],
        gain_loss |-> total_market_value - total_cost_basis,
        gain_loss_pct |-> IF total_cost_basis > 0
                          THEN Pct(total_market_value - total_cost_basis, total_cost_basis)
                          ELSE [num |-> 0, den |-> 1]]

get_position(symbol) ==
    /\ last' = [op |-> "get_position", ret |-> GetPosition(_positions, symbol),
                raised |-> "", arg |-> symbol, stale |-> {}]
    /\ fired' = <<>>
    /\ UNCHANGED <<_accounts, _positions, _orders, _executions, _order_callbacks, _monitoring,
                   _monitored_orders, _monitored_accounts, loops, auxVars, streamVars>>

\* refresh_positions, one account: get_account has returned; under the lock
\* the account is stored and its position map is replaced by an empty one
RefreshBegin(account_number, fetched) ==
    /\ refreshing = NoRefresh
    /\ account_number \in DOMAIN _accounts /\ fetched # Fail
    /\ _accounts' = DictSet(_accounts, account_number, fetched)
    /\ _positions' = DictSet(_positions, account_number, EmptyDict)
    /\ refreshing' = [in_progress |-> TRUE, account_number |-> account_number,
                      todo |-> fetched.positions, before |-> _positions]
    /\ last' = [op |-> "refresh_begin", ret |-> None, raised |-> "",
                arg |-> DictSet(EmptyDict, account_number, fetched), stale |-> {}]
    /\ fired' = <<>>
    /\ UNCHANGED <<_orders, _executions, _order_callbacks, _monitoring, _monitored_orders,
                   _monitored_accounts, loops, persisted, streamVars>>

\* "for position in positions_list": the next position is stored
RefreshStore ==
    /\ refreshing # NoRefresh /\ refreshing.todo # <<>>
    /\ _positions' = [_positions EXCEPT ![refreshing.account_number] =
                          StorePositions(@, <<Head(refreshing.todo)>>)]
    /\ refreshing' = [refreshing EXCEPT !.todo = Tail(@)]
    /\ last' = [op |-> "refresh_store", ret |-> None, raised |-> "", arg |-> EmptyDict,
                stale |-> {}]
    /\ fired' = <<>>
    /\ UNCHANGED <<_accounts, _orders, _executions, _order_callbacks, _monitoring,
                   _monitored_orders, _monitored_accounts, loops, persisted, streamVars>>

\* the end of the "with self._lock" block
RefreshEnd ==
    /\ refreshing # NoRefresh /\ refreshing.todo = <<>>
    /\ refreshing' = NoRefresh
    /\ last' = [op |-> "refresh_end", ret |-> None, raised |-> "", arg |-> EmptyDict,
                stale |-> {}]
    /\ fired' = <<>>
    /\ UNCHANGED <<_accounts, _positions, _orders, _executions, _order_callbacks,
                   _monitoring, _monitored_orders, _monitored_accounts, loops, persisted,
                   streamVars>>

\* ---- orders, executions and the monitoring loop
MaxRecent == 2         \* orders in one get_orders answer
MaxLoops == 2          \* monitor_loop threads alive at once

WORKING == "WORKING"
FILLED == "FILLED"
CANCELED == "CANCELED"
Statuses == {WORKING, FILLED, CANCELED}
TerminalStatuses == Statuses \ {WORKING}

OrderIds == {1, 2}
OrderCallbacks == {"cbOk", "cbRaise"}    \* cbRaise raises an Exception when called

Order(order_id, order_type, quantity, status, activities) ==
    [order_id |-> order_id, order_type |-> order_type, quantity |-> quantity,
     status |-> status, order_activity_collection |-> activities]

ExecutionLeg(leg_id, price, quantity) ==
    [leg_id |-> leg_id, price |-> price, quantity |-> quantity]

OrderActivity(activity_type, activity_id, legs) ==
    [activity_type |-> activity_type, activity_id |-> activity_id, execution_legs |-> legs]

\* what an order's order_activity_collection can be when Transport returns it
ActivityCollections ==
    {<<>>,
     <<OrderActivity("EXECUTION", 1, <<ExecutionLeg(1, 10, 5)>>)>>,
     <<OrderActivity("EXECUTION", 1, <<ExecutionLeg(1, 11, 5), ExecutionLeg(2, 10, 5)>>),
       OrderActivity("ORDER_ACTION", 2, <<ExecutionLeg(3, 10, 5)>>)>>}

\* the orders the venue lists as recently entered, and the orders submitted
RecentOrders ==
    {Order(1, "MARKET", 1, WORKING, <<>>), Order(2, "MARKET", 2, WORKING, <<>>)}
SubmittedOrders ==
    {[order_type |-> "MARKET", quantity |-> 1], [order_type |-> "MARKET", quantity |-> 2],
     [order_type |-> "LIMIT", quantity |-> 1]}

\* ExecutionReport.from_activity (schwab/models/execution.py): one report per
\* execution leg, identified by the order, the activity and the leg
from_activity(order_id, activity, leg) ==
    [execution_id |-> <<order_id, activity.activity_id, leg.leg_id>>,
     order_id |-> order_id, leg_id |-> leg.leg_id,
     price |-> leg.price, quantity |-> leg.quantity]

\* a store that files each report under its id and its price
StoreExecutionPerReport(executions, execution) ==
    DictSet(executions, <<execution.execution_id, execution.price>>, execution)

\* _handle_execution: self._executions[execution.execution_id] = execution
StoreExecution(executions, execution) ==
    DictSet(executions, execution.execution_id, execution)

\* PortfolioManager._handle_execution: one report per leg of the activity
RECURSIVE HandleLegs(_, _, _, _)
HandleLegs(executions, order, activity, legs) ==
    IF legs = <<>> THEN executions
    ELSE HandleLegs(StoreExecution(executions, from_activity(order.order_id, activity, Head(legs))),
                    order, activity, Tail(legs))

_handle_execution(executions, order, activity) ==
    HandleLegs(executions, order, activity, activity.execution_legs)

\* _update_order's loop over order.order_activity_collection
RECURSIVE HandleActivities(_, _, _)
HandleActivities(executions, order, activities) ==
    IF activities = <<>> THEN executions
    ELSE HandleActivities(
            IF Head(activities).activity_type = "EXECUTION"
            THEN _handle_execution(executions, order, Head(activities))
            ELSE executions,
            order, Tail(activities))

\* a fan-out that the first raising callback ends
RECURSIVE NotifyUntilRaise(_, _)
NotifyUntilRaise(cbs, order) ==
    IF cbs = <<>> THEN <<>>
    ELSE LET call == [callback |-> Head(cbs), order_id |-> order.order_id,
                      status |-> order.status]
         IN IF Invoke(Head(cbs)) = "raise"
            THEN <<call>>
            ELSE <<call>> \o NotifyUntilRaise(Tail(cbs), order)

\* PortfolioManager._handle_status_change: the callbacks registered for the
\* order's id are called in list order, each in its own try/except
RECURSIVE NotifyEach(_, _)
NotifyEach(cbs, order) ==
    IF cbs = <<>> THEN <<>>
    ELSE LET call == [callback |-> Head(cbs), order_id |-> order.order_id,
                      status |-> order.status]
         IN IF Invoke(Head(cbs)) = "raise"
            THEN <<call>> \o NotifyEach(Tail(cbs), order)     \* except: logger.error
            ELSE IF Invoke(Head(cbs)) = "reenter"
            THEN <<call>>      \* the caller holds the lock: the call does not return
            ELSE <<call>> \o NotifyEach(Tail(cbs), order)

_handle_status_change(callbacks, order, prev_status) ==
    IF order.order_id \in DOMAIN callbacks
    THEN NotifyEach(callbacks[order.order_id], order)
    ELSE <<>>

\* the status of _update_order's "prev_status and order.status != prev_status"
StatusChanged(prev_status, order) == prev_status # None /\ order.status # prev_status

\* a refresh that drops what get_order returned
UpdateOrderDiscarding(orders, executions, callbacks, order_id, order) ==
    [orders |-> orders, executions |-> executions, fired |-> <<>>, blocked |-> FALSE]

\* a refresh that gives up an order whose fetch failed: the stored record is
\* marked CANCELED
UpdateOrderGivingUp(orders, executions, callbacks, order_id, order) ==
    IF order = Fail
    THEN [orders |-> IF order_id \in DOMAIN orders
                     THEN [orders EXCEPT ![order_id].status = CANCELED] ELSE orders,
          executions |-> executions, fired |-> <<>>, blocked |-> FALSE]
    ELSE UpdateOrderDiscarding(orders, executions, callbacks, order_id, order)

\* PortfolioManager._update_order / _update_order_async; order is what
\* get_order returned, or Fail when it raised (logged, nothing changes)
UpdateOrder(orders, executions, callbacks, order_id, order) ==
    IF order = Fail
    THEN [orders |-> orders, executions |-> executions, fired |-> <<>>, blocked |-> FALSE]
    ELSE LET prev_status == IF order_id \in DOMAIN orders THEN orders[order_id].status
                            ELSE None
             calls == IF StatusChanged(prev_status, order)
                      THEN _handle_status_change(callbacks, order, prev_status)
                      ELSE <<>>
             blocked == calls # <<>> /\ Invoke(calls[Len(calls)].callback) = "reenter"
         IN [orders |-> DictSet(orders, order_id, order),
             executions |-> IF blocked THEN executions
                            ELSE HandleActivities(executions, order,
                                                  order.order_activity_collection),
             fired |-> calls, blocked |-> blocked]

\* what get_order can return for a tracked order: the order with any status
\* and any activity collection
OrderAnswers(order_id, Activities) ==
    IF order_id \in DOMAIN _orders
    THEN {[_orders[order_id] EXCEPT !.status = s, !.order_activity_collection = acts] :
             s \in Statuses, acts \in Activities}
    ELSE {}

\* one _update_order call of the monitoring loop
\* ("for account_number in _monitored_accounts: for order_id in _monitored_orders")
_update_order(account_number, order_id, order) ==
    /\ _monitoring
    /\ account_number \in _monitored_accounts /\ order_id \in _monitored_orders
    /\ LET r == UpdateOrder(_orders, _executions, _order_callbacks, order_id, order) IN
       /\ _orders' = r.orders
       /\ _executions' = r.executions
       /\ fired' = r.fired
    /\ last' = [op |-> "_update_order", ret |-> None, raised |-> "",
                arg |-> [account_number |-> account_number, order_id |-> order_id,
                         order |-> order],
                stale |-> {},
                events |-> UpdateOrderEvents(order, UpdateOrder(_orders, _executions,
                                      _order_callbacks, order_id, order).blocked)]
    /\ UNCHANGED <<_accounts, _positions, _order_callbacks, _monitoring,
                   _monitored_orders, _monitored_accounts, loops, auxVars, streamVars>>

\* PortfolioManager.cancel_order / cancel_order_async
cancel_order(account_number, order_id, cancelled, order) ==
    LET arg == [account_number |-> account_number, order_id |-> order_id,
                cancelled |-> cancelled, order |-> order]
    IN
    /\ IF order_id \notin DOMAIN _orders
       THEN /\ UNCHANGED <<_orders, _executions>> /\ fired' = <<>>
            /\ last' = [op |-> "cancel_order", ret |-> None, raised |-> "ValueError",
                        arg |-> arg, stale |-> {}, events |-> <<>>]
       ELSE IF ~cancelled
       THEN \* client.cancel_order raises out of cancel_order
            /\ UNCHANGED <<_orders, _executions>> /\ fired' = <<>>
            /\ last' = [op |-> "cancel_order", ret |-> None, raised |-> "Exception",
                        arg |-> arg, stale |-> {}, events |-> <<"cancel_order">>]
       ELSE LET r == UpdateOrder(_orders, _executions, _order_callbacks, order_id, order) IN
            /\ _orders' = r.orders
            /\ _executions' = r.executions
            /\ fired' = r.fired
            /\ last' = [op |-> "cancel_order", ret |-> None, raised |-> "",
                        arg |-> arg, stale |-> {},
                        events |-> <<"cancel_order">>
                                   \o UpdateOrderEvents(order, r.blocked)]
    /\ UNCHANGED <<_accounts, _positions, _order_callbacks, _monitoring,
                   _monitored_orders, _monitored_accounts, loops, auxVars, streamVars>>

\* placed_order = None
NoOrder == [is_none |-> TRUE]

\* a search that matches on the order type alone
FirstMatchByType(order, recent) ==
    LET hits == {i \in DOMAIN recent : recent[i].order_type = order.order_type}
    IN IF hits = {} THEN NoOrder ELSE recent[CHOOSE i \in hits : \A j \in hits : i <= j]

\* place_order's search of the recent orders: the first entry with the
\* submitted order's type and quantity, or None
FirstMatch(order, recent) ==
    LET hits == {i \in DOMAIN recent : /\ recent[i].order_type = order.order_type
                                       /\ recent[i].quantity = order.quantity}
    IN IF hits = {} THEN NoOrder ELSE recent[CHOOSE i \in hits : \A j \in hits : i <= j]

\* PortfolioManager._start_monitoring, as its callers reach it ("if not
\* self._monitoring: self._start_monitoring()"): sets the flag and starts one
\* more monitor_loop thread, whatever threads are still alive
StartedLoops == IF _monitoring THEN loops ELSE loops + 1

\* the model follows at most MaxLoops threads
CanStart == _monitoring \/ loops < MaxLoops

\* monitor_loop's "while self._monitoring": a thread that finds the flag
\* cleared ends
monitor_loop_exit ==
    /\ loops > 0 /\ ~_monitoring
    /\ loops' = loops - 1
    /\ last' = [op |-> "monitor_loop_exit", ret |-> None, raised |-> "", arg |-> EmptyDict,
                stale |-> {}]
    /\ fired' = <<>>
    /\ UNCHANGED <<_accounts, _positions, _orders, _executions, _order_callbacks, _monitoring,
                   _monitored_orders, _monitored_accounts, auxVars, streamVars>>

\* a place_order that starts the monitoring loop as soon as the order has been
\* submitted, before the recent-order search
place_orderEager(account_number, order, submitted, recent) ==
    LET placed_order == FirstMatch(order, recent)
        arg == [account_number |-> account_number, order |-> order,
                submitted |-> submitted, recent |-> recent]
    IN
    /\ IF account_number \notin DOMAIN _accounts
       THEN /\ UNCHANGED <<_orders, _monitored_orders, _monitoring, loops>>
            /\ last' = [op |-> "place_order", ret |-> None, raised |-> "ValueError", arg |-> arg, stale |-> {},
                        events |-> <<>>]
       ELSE IF ~submitted
       THEN /\ UNCHANGED <<_orders, _monitored_orders, _monitoring, loops>>
            /\ last' = [op |-> "place_order", ret |-> None, raised |-> "Exception", arg |-> arg, stale |-> {},
                        events |-> <<"place_order">>]
       ELSE /\ CanStart
            /\ _monitoring' = TRUE
            /\ loops' = StartedLoops
            /\ IF placed_order = NoOrder
               THEN /\ UNCHANGED <<_orders, _monitored_orders>>
                    /\ last' = [op |-> "place_order", ret |-> 0, raised |-> "", arg |-> arg, stale |-> {},
                                events |-> <<"place_order", "get_orders">>]
               ELSE /\ _orders' = DictSet(_orders, placed_order.order_id, placed_order)
                    /\ _monitored_orders' = _monitored_orders \cup {placed_order.order_id}
                    /\ last' = [op |-> "place_order", ret |-> placed_order.order_id, raised |-> "",
                                arg |-> arg, stale |-> {},
                                events |-> <<"place_order", "get_orders", Acquire, Write, Release>>]
    /\ fired' = <<>>
    /\ UNCHANGED <<_accounts, _positions, _executions, _order_callbacks,
                   _monitored_accounts, auxVars, streamVars>>

\* PortfolioManager.place_order / place_order_async; submitted is FALSE when
\* Transport's place_order or get_orders raises
place_order(account_number, order, submitted, recent) ==
    LET placed_order == FirstMatch(order, recent)
        arg == [account_number |-> account_number, order |-> order,
                submitted |-> submitted, recent |-> recent]
    IN
    /\ IF account_number \notin DOMAIN _accounts
       THEN /\ UNCHANGED <<_orders, _monitored_orders, _monitoring, loops>>
            /\ last' = [op |-> "place_order", ret |-> None, raised |-> "ValueError", arg |-> arg, stale |-> {},
                        events |-> <<>>]
       ELSE IF ~submitted
       THEN /\ UNCHANGED <<_orders, _monitored_orders, _monitoring, loops>>
            /\ last' = [op |-> "place_order", ret |-> None, raised |-> "Exception", arg |-> arg, stale |-> {},
                        events |-> <<"place_order">>]
       ELSE IF placed_order = NoOrder
       THEN \* "Could not find placed order in recent orders"
            /\ UNCHANGED <<_orders, _monitored_orders, _monitoring, loops>>
            /\ last' = [op |-> "place_order", ret |-> 0, raised |-> "", arg |-> arg, stale |-> {},
                        events |-> <<"place_order", "get_orders">>]
       ELSE /\ _orders' = DictSet(_orders, placed_order.order_id, placed_order)
            /\ _monitored_orders' = _monitored_orders \cup {placed_order.order_id}
            /\ CanStart
            /\ _monitoring' = TRUE
            /\ loops' = StartedLoops
            /\ last' = [op |-> "place_order", ret |-> placed_order.order_id, raised |-> "",
                        arg |-> arg, stale |-> {},
                        events |-> <<"place_order", "get_orders", Acquire, Write, Release>>]
    /\ fired' = <<>>
    /\ UNCHANGED <<_accounts, _positions, _executions, _order_callbacks,
                   _monitored_accounts, auxVars, streamVars>>

\* a registration that replaces the list of an order by the new callback
RegisteredReplacing(callbacks, order_ids, callback) ==
    [o \in DOMAIN callbacks \cup order_ids |->
        IF o \in order_ids THEN <<callback>> ELSE callbacks[o]]

\* monitor_orders' loop "for order_id in self._orders": the callback is
\* appended to the list of each tracked order, a list being created if missing
RegisteredCallbacks(callbacks, order_ids, callback) ==
    [o \in DOMAIN callbacks \cup order_ids |->
        IF o \in order_ids
        THEN (IF o \in DOMAIN callbacks THEN callbacks[o] ELSE <<>>) \o <<callback>>
        ELSE callbacks[o]]

\* PortfolioManager.monitor_orders
monitor_orders(callback) ==
    /\ \A o \in DOMAIN _order_callbacks : Len(_order_callbacks[o]) < MaxCallbacks
    /\ _order_callbacks' = RegisteredCallbacks(_order_callbacks, DOMAIN _orders, callback)
    /\ CanStart
    /\ _monitoring' = TRUE
    /\ loops' = StartedLoops
    /\ last' = [op |-> "monitor_orders", ret |-> None, raised |-> "", arg |-> callback, stale |-> {},
                events |-> [i \in 1..Cardinality(DOMAIN _orders) |-> Write]]
    /\ fired' = <<>>
    /\ UNCHANGED <<_accounts, _positions, _orders, _executions,
                   _monitored_orders, _monitored_accounts, auxVars, streamVars>>

\* PortfolioManager.stop_monitoring
stop_monitoring ==
    /\ _monitoring' = FALSE
    /\ last' = [op |-> "stop_monitoring", ret |-> None, raised |-> "", arg |-> EmptyDict, stale |-> {}]
    /\ fired' = <<>>
    /\ UNCHANGED <<_accounts, _positions, _orders, _executions, _order_callbacks,
                   _monitored_orders, _monitored_accounts, loops, auxVars, streamVars>>

\* ---- persistence
\* str(k) of an order id, and int(order_id_str) of such a key
str(order_id) == IF order_id = 1 THEN "1" ELSE "2"
int(order_id_str) == CHOOSE order_id \in OrderIds : str(order_id) = order_id_str

\* pydantic's model_dump and model_validate (schwab/models): a model's dict,
\* and the model of such a dict
model_dump(model) == [dumped |-> model]
model_validate(data) == data.dumped

\* the state _save_state serializes
SavedState ==
    [exists |-> TRUE, readable |-> TRUE,
     accounts |-> [a \in DOMAIN _accounts |-> model_dump(_accounts[a])],
     orders |-> [k \in {str(o) : o \in DOMAIN _orders} |-> model_dump(_orders[int(k)])],
     executions |-> [e \in DOMAIN _executions |-> model_dump(_executions[e])]]

\* a file that open(path, 'w') has truncated and json.dump has not completed
UnreadableFile == [exists |-> TRUE, readable |-> FALSE]

\* PortfolioManager._save_state, called by monitor_loop once per iteration
\* when a persistence path is configured; written is FALSE when json.dump
\* raises (logged)
_save_state(written) ==
    /\ _monitoring /\ loops > 0
    /\ persisted' = IF written THEN SavedState ELSE UnreadableFile
    /\ last' = [op |-> "_save_state", ret |-> None, raised |-> "", arg |-> written,
                stale |-> {}]
    /\ fired' = <<>>
    /\ UNCHANGED <<_accounts, _positions, _orders, _executions, _order_callbacks,
                   _monitoring, _monitored_orders, _monitored_accounts, loops, refreshing,
                   streamVars>>

\* _load_state's loop over a restored account's positions:
\* "symbol = position.instrument.symbol"; an instrument without the
\* attribute raises, which ends the account's restoration
RECURSIVE LoadPositions(_, _)
LoadPositions(map, positions_list) ==
    IF positions_list = <<>> THEN [map |-> map, raised |-> FALSE]
    ELSE IF Head(positions_list).symbol = Absent THEN [map |-> map, raised |-> TRUE]
    ELSE LoadPositions(DictSet(map, Head(positions_list).symbol, Head(positions_list)),
                       Tail(positions_list))

\* every restored order is watched
WatchedAll(orders) == DOMAIN orders

\* "if self._orders[order_id].status == OrderStatus.WORKING:
\*      self._monitored_orders.add(order_id)"
WatchedAfterLoad(orders) == {o \in DOMAIN orders : orders[o].status = WORKING}

\* PortfolioManager._load_state on a readable file
LoadedState(state) ==
    LET accounts == [a \in DOMAIN state.accounts |-> model_validate(state.accounts[a])]
        loaded == [a \in DOMAIN accounts |-> LoadPositions(EmptyDict, accounts[a].positions)]
        orders == [o \in {int(k) : k \in DOMAIN state.orders} |->
                      model_validate(state.orders[str(o)])]
    IN [accounts |-> accounts,
        positions |-> [a \in DOMAIN accounts |-> loaded[a].map],
        monitored_accounts |-> {a \in DOMAIN accounts : ~loaded[a].raised},
        orders |-> orders,
        monitored_orders |-> WatchedAfterLoad(orders),
        executions |-> [e \in DOMAIN state.executions |->
                           model_validate(state.executions[e])]]

\* PortfolioManager.__init__ with a persistence path, in a new process: the
\* empty ledger, then _load_state, which starts the monitoring loop when a
\* restored order is watched
__init__ ==
    /\ IF persisted = NoFile \/ ~persisted.readable
       THEN \* no file, or json.load raises (logged)
            /\ _accounts' = EmptyDict /\ _positions' = EmptyDict
            /\ _orders' = EmptyDict /\ _executions' = EmptyDict
            /\ _monitored_orders' = {} /\ _monitored_accounts' = {}
            /\ _monitoring' = FALSE /\ loops' = 0
       ELSE LET st == LoadedState(persisted) IN
            /\ _accounts' = st.accounts /\ _positions' = st.positions
            /\ _orders' = st.orders /\ _executions' = st.executions
            /\ _monitored_orders' = st.monitored_orders
            /\ _monitored_accounts' = st.monitored_accounts
            /\ _monitoring' = (st.monitored_orders # {})
            /\ loops' = IF st.monitored_orders # {} THEN 1 ELSE 0
    /\ _order_callbacks' = EmptyDict
    /\ last' = [op |-> "__init__", ret |-> None, raised |-> "", arg |-> EmptyDict,
                stale |-> {}]
    /\ fired' = <<>>
    /\ UNCHANGED <<auxVars, streamVars>>

LedgerInit ==
    /\ _accounts = EmptyDict
    /\ _positions = EmptyDict
    /\ _orders = EmptyDict
    /\ _executions = EmptyDict
    /\ _order_callbacks = EmptyDict
    /\ _monitoring = FALSE
    /\ _monitored_orders = {}
    /\ _monitored_accounts = {}
    /\ loops = 0
    /\ persisted = NoFile
    /\ refreshing = NoRefresh
    /\ fired = <<>>
    /\ last = [op |-> "init", ret |-> None, raised |-> "", arg |-> EmptyDict, stale |-> {}]

Init == StreamInit /\ LedgerInit

\* one SchwabStreamer under its client: every subscribe call, every frame
StreamNext ==
    \/ \E ok \in BOOLEAN : _reconnect_task = "none" /\ Start(ok)
    \/ \E c \in SubscribeArgs : Subscribe(c)
    \/ ConnectionClosed
    \/ \E f \in Frames : ReceiveData(f)

StreamSpec == Init /\ [][StreamNext]_vars

\* a connection with a callback that takes its time: the event loop runs one
\* coroutine at a time, so nothing else of the client runs during a callback
SlowSubscribeArgs ==
    {[service |-> sv, symbols |-> <<"AAPL">>, fields |-> <<>>, callback |-> cb] :
        sv \in {QUOTE, OPTION}, cb \in {"cbOk", "cbSlow"}}

Busy == streamer # NoStreamer /\ streamer._receive_task = "in_callback"

SlowCallbackNext ==
    \/ _reconnect_task = "none" /\ Start(TRUE)
    \/ \E c \in SlowSubscribeArgs : ~Busy /\ Subscribe(c)
    \/ \E f \in Frames : ReceiveData(f)
    \/ CallbackReturns

SlowCallbackSpec == Init /\ [][SlowCallbackNext]_vars

\* the client's reconnect loop around successive SchwabStreamers
SupervisorNext ==
    \/ \E ok \in BOOLEAN : _reconnect_task = "none" /\ Start(ok)
    \/ \E c \in SupervisorSubscribeArgs : Subscribe(c)
    \/ ConnectionClosed
    \/ \E ok \in BOOLEAN : Reconnect(ok)
    \/ BackoffElapsed

SupervisorSpec == Init /\ [][SupervisorNext]_vars

\* the supervisor when every connect that keeps being attempted succeeds
\* at some attempt, and the sleeps of the loop end
SupervisorLiveNext ==
    \/ \E ok \in BOOLEAN : _reconnect_task = "none" /\ Start(ok)
    \/ \E c \in SupervisorSubscribeArgs : c.service = QUOTE /\ Subscribe(c)
    \/ ConnectionClosed
    \/ \E ok \in BOOLEAN : Reconnect(ok)
    \/ BackoffElapsed

SupervisorLiveSpec ==
    /\ Init /\ [][SupervisorLiveNext]_vars
    /\ SF_vars(Reconnect(TRUE))
    /\ WF_vars(BackoffElapsed)

\* a connection whose socket can close or fail, with its receive and
\* heartbeat tasks scheduled and the supervisor's loop polling
ConnectionLiveNext ==
    \/ \E ok \in BOOLEAN : _reconnect_task = "none" /\ Start(ok)
    \/ \E c \in SupervisorSubscribeArgs : c.service = QUOTE /\ Subscribe(c)
    \/ ConnectionClosed
    \/ SocketError
    \/ ReceiveError
    \/ Heartbeat
    \/ \E ok \in BOOLEAN : Reconnect(ok)
    \/ BackoffElapsed

ConnectionLiveSpec ==
    /\ Init /\ [][ConnectionLiveNext]_vars
    /\ WF_vars(ReceiveError)
    /\ WF_vars(Heartbeat)
    /\ SF_vars(Reconnect(TRUE))
    /\ WF_vars(BackoffElapsed)

\* the subscribe and unsubscribe calls of the subscription specification
TrackingArgs ==
    {[service |-> sv, symbols |-> sy, fields |-> <<0, 1>>, callback |-> None, omitted |-> FALSE] :
        sv \in {QUOTE, OPTION}, sy \in {<<>>, <<"AAPL">>, <<"MSFT">>, <<"AAPL", "MSFT">>}}
    \cup {[service |-> QUOTE, symbols |-> <<>>, fields |-> <<0, 1>>, callback |-> None,
           omitted |-> TRUE]}

\* the subscriptions one connection tracks
SubscriptionNext ==
    \/ \E ok \in BOOLEAN : _reconnect_task = "none" /\ Start(ok)
    \/ \E c \in TrackingArgs : ~c.omitted /\ Subscribe(c)
    \/ \E c \in TrackingArgs : Unsubscribe(c)
    \/ ConnectionClosed

SubscriptionSpec == Init /\ [][SubscriptionNext]_vars

\* the client's start and stop, and the server's answer to LOGIN
LifecycleNext ==
    \/ \E ok \in BOOLEAN : Start(ok)
    \/ \E logout_ok \in BOOLEAN : Stop(logout_ok)
    \/ \E code \in {"ok", "rejected"} : ReceiveLoginResponse(code)
    \/ \E c \in SupervisorSubscribeArgs : Subscribe(c)
    \/ ConnectionClosed

LifecycleSpec == Init /\ [][LifecycleNext]_vars

\* the two background loops and the calls that start and stop them
ShutdownNext ==
    \/ \E ok \in BOOLEAN : Start(ok)
    \/ \E logout_ok \in BOOLEAN : Stop(logout_ok)
    \/ ConnectionClosed
    \/ \E ok \in BOOLEAN : Reconnect(ok)
    \/ BackoffElapsed
    \/ \E ok \in BOOLEAN : OrphanReconnect(ok)
    \/ add_account("A1", [positions |-> <<>>])
    \/ place_order("A1", [order_type |-> "MARKET", quantity |-> 1], TRUE,
                   <<Order(1, "MARKET", 1, WORKING, <<>>)>>)
    \/ \E order \in OrderAnswers(1, {<<>>}) \cup {Fail} : _update_order("A1", 1, order)
    \/ stop_monitoring
    \/ monitor_loop_exit

ShutdownSpec == Init /\ [][ShutdownNext]_vars

\* what get_account returns for each account of the ledger
Fetches(S) == [DOMAIN _accounts -> S \cup {Fail}]

\* accounts and their position maps
PositionNext ==
    \/ \E a \in AccountNumbers, fetched \in Snapshots \cup {Fail} : add_account(a, fetched)
    \/ \E fetched \in Fetches(Snapshots) : refresh_positions(fetched)
    \/ \E fetched \in Fetches(Snapshots) : refresh_positions_async(fetched)
    \/ \E fetched \in Fetches(Snapshots) : update(fetched)
    \/ \E symbol \in QuoteSymbols : _update_position_quote(symbol, [last_price |-> 1])

PositionSpec == Init /\ [][PositionNext]_vars

\* accounts with balances and priced positions, and their valuation
SummaryNext ==
    \/ \E a \in AccountNumbers, fetched \in PricedSnapshots \cup {Fail} :
          add_account(a, fetched)
    \/ \E fetched \in Fetches(PricedSnapshots), order \in KeyOrders(DOMAIN _accounts) :
          get_portfolio_summary(fetched, order)

SummarySpec == Init /\ [][SummaryNext]_vars

\* the symbols readers ask for
ReaderSymbols == {"AAPL", "SPY", "MSFT"}

\* a thread refreshing the positions while other threads read them;
\* add_account commits under the lock, which a refresh in progress holds
ConcurrentNext ==
    \/ \E a \in AccountNumbers, fetched \in PricedSnapshots \cup {Fail} :
          refreshing = NoRefresh /\ add_account(a, fetched)
    \/ \E a \in AccountNumbers, fetched \in PricedSnapshots \cup {Fail} :
          RefreshBegin(a, fetched)
    \/ RefreshStore
    \/ RefreshEnd
    \/ \E symbol \in ReaderSymbols : get_position(symbol)

ConcurrentSpec == Init /\ [][ConcurrentNext]_vars

\* the snapshots and the activity collections of the persistence specification
RestoreSnapshots ==
    {[positions |-> <<PosAAPL(10)>>], [positions |-> <<PosAAPL(20), PosSPY>>],
     [positions |-> <<PosNoneSymbol>>]}
RestoreActivities ==
    {<<>>, <<OrderActivity("EXECUTION", 1, <<ExecutionLeg(1, 10, 5)>>)>>}

\* a ledger whose monitoring loop saves its state, and the processes that
\* are constructed from the file later
RestoreNext ==
    \/ \E fetched \in RestoreSnapshots : add_account("A1", fetched)
    \/ \E order \in SubmittedOrders, recent \in SeqsUpTo(RecentOrders, 1) :
          place_order("A1", order, TRUE, recent)
    \/ \E order \in OrderAnswers(1, RestoreActivities) \cup {Fail} :
          _update_order("A1", 1, order)
    \/ \E written \in BOOLEAN : _save_state(written)
    \/ __init__

RestoreSpec == Init /\ [][RestoreNext]_vars

\* the snapshots of the order specifications' accounts
OrderSnapshots == {[positions |-> <<PosAAPL(10)>>]}

\* the specification of status changes has orders without activity
NoActivities == {<<>>}

\* orders, status changes, callbacks and the monitoring loop
Next ==
    \/ \E fetched \in OrderSnapshots : add_account("A1", fetched)
    \/ \E a \in AccountNumbers, order \in SubmittedOrders, submitted \in BOOLEAN,
          recent \in SeqsUpTo(RecentOrders, 1) :
          place_order(a, order, submitted, recent)
    \/ \E a \in AccountNumbers, o \in OrderIds :
          \E order \in OrderAnswers(o, NoActivities) \cup {Fail} : _update_order(a, o, order)
    \/ \E o \in OrderIds, cancelled \in BOOLEAN :
          \E order \in OrderAnswers(o, NoActivities) \cup {Fail} :
              cancel_order("A1", o, cancelled, order)
    \/ \E callback \in OrderCallbacks : monitor_orders(callback)
    \/ \E symbol \in QuoteSymbols : _update_position_quote(symbol, [last_price |-> 1])

Spec == Init /\ [][Next]_vars

\* order placement: every account, every submission outcome and every answer
\* of the recent-order search
PlacementNext ==
    \/ \E a \in AccountNumbers, fetched \in OrderSnapshots \cup {Fail} : add_account(a, fetched)
    \/ \E a \in AccountNumbers, order \in SubmittedOrders, submitted \in BOOLEAN,
          recent \in SeqsUpTo(RecentOrders, MaxRecent) :
          place_order(a, order, submitted, recent)
    \/ stop_monitoring
    \/ monitor_loop_exit

PlacementSpec == Init /\ [][PlacementNext]_vars

\* the monitoring flag and the monitor_loop threads: every caller that starts
\* monitoring, stop_monitoring, and the threads' own reading of the flag
MonitoringNext ==
    \/ \E fetched \in OrderSnapshots : add_account("A1", fetched)
    \/ \E order \in SubmittedOrders, recent \in SeqsUpTo(RecentOrders, 1) :
          place_order("A1", order, TRUE, recent)
    \/ \E o \in OrderIds :
          \E order \in OrderAnswers(o, NoActivities) \cup {Fail} : _update_order("A1", o, order)
    \/ \E callback \in OrderCallbacks : monitor_orders(callback)
    \/ stop_monitoring
    \/ monitor_loop_exit

MonitoringSpec == Init /\ [][MonitoringNext]_vars

\* order callbacks that call back into the ledger
ReentrantNext ==
    \/ ~LockStuck /\ add_account("A1", [positions |-> <<>>])
    \/ \E order \in SubmittedOrders, recent \in SeqsUpTo(RecentOrders, 1) :
          ~LockStuck /\ place_order("A1", order, TRUE, recent)
    \/ \E callback \in {"cbOk", "cbReenter"} : ~LockStuck /\ monitor_orders(callback)
    \/ \E o \in OrderIds :
          \E order \in OrderAnswers(o, NoActivities) \cup {Fail} :
             ~LockStuck /\ _update_order("A1", o, order)

ReentrantSpec == Init /\ [][ReentrantNext]_vars

\* one order and every activity collection: the execution records
ExecutionNext ==
    \/ \E fetched \in OrderSnapshots : add_account("A1", fetched)
    \/ \E order \in SubmittedOrders, recent \in SeqsUpTo(RecentOrders, MaxRecent) :
          place_order("A1", order, TRUE, recent)
    \/ \E o \in OrderIds :
          \E order \in OrderAnswers(o, ActivityCollections) \cup {Fail} :
              _update_order("A1", o, order)
    \/ \E o \in OrderIds, cancelled \in BOOLEAN :
          \E order \in OrderAnswers(o, ActivityCollections) \cup {Fail} :
              cancel_order("A1", o, cancelled, order)
    \/ \E symbol \in QuoteSymbols : _update_position_quote(symbol, [last_price |-> 1])

ExecutionSpec == Init /\ [][ExecutionNext]_vars

(***************************************************************************)
(*                     Properties: streaming                               *)
(***************************************************************************)

\* the SUBS requests a streamer has sent for a service
SubsSent(s, service) ==
    {k \in DOMAIN s.sent : s.sent[k].command = "SUBS" /\ s.sent[k].service = service}

\* the reconnect loop has just replaced a dropped connection
ReconnectedAfterDrop ==
    /\ slast.op = "reconnect" /\ ~slast.raised
    /\ replaced # NoStreamer /\ replaced.websocket = "closed"

\* C1: after a connection drop the reconnect loop creates a new connection and
\* sends one subscription for every (service, symbols, fields) the dropped
\* connection tracked, each exactly once, so that the new connection tracks
\* the same subscriptions as the old one.
C1_ReplayAfterReconnect ==
    ReconnectedAfterDrop =>
        /\ streamer.subscriptions = replaced.subscriptions
        /\ \A service \in DOMAIN replaced.subscriptions :
              /\ Cardinality(SubsSent(streamer, service)) = 1
              /\ \A k \in SubsSent(streamer, service) :
                    /\ streamer.sent[k].keys = replaced.subscriptions[service].symbols
                    /\ streamer.sent[k].fields = replaced.subscriptions[service].fields

\* the invocations of the last frame that carried item i's content
DeliveredFor(i) == {k \in DOMAIN delivered : delivered[k].content = frame[i].content}

\* C10: in the receive path every callback registered for an item's service
\* is invoked with that item's content; a raising callback stops neither the
\* remaining callbacks of the item, nor the remaining items of the frame, nor
\* the receive loop.
C10_CallbacksIsolated ==
    slast.op = "data" =>
        /\ \A i \in DOMAIN frame :
              LET cbs == IF frame[i].service \in DOMAIN streamer.callbacks
                         THEN streamer.callbacks[frame[i].service] ELSE <<>>
              IN /\ Cardinality(DeliveredFor(i)) = Len(cbs)
                 /\ \A j \in DOMAIN cbs :
                       Cardinality({k \in DeliveredFor(i) :
                                       /\ delivered[k].callback = cbs[j]
                                       /\ delivered[k].service = frame[i].service})
                         = Cardinality({m \in DOMAIN cbs : cbs[m] = cbs[j]})
        /\ streamer.is_connected /\ streamer.websocket = "open"

\* a raising callback was followed by another callback of the same item and
\* by the callbacks of the next item
C10_Witness ==
    /\ slast.op = "data" /\ Len(frame) = 2
    /\ \E k \in DOMAIN delivered :
          /\ delivered[k].callback = "cbRaise" /\ delivered[k].content = 1
          /\ k + 1 \in DOMAIN delivered /\ delivered[k + 1].content = 1
          /\ \E m \in DOMAIN delivered : m > k /\ delivered[m].content = 2

(***************************************************************************)
(*                     Properties: positions                               *)
(***************************************************************************)
RefreshOps == {"refresh_positions", "refresh_positions_async", "update"}

C7_FailedFetchKeepsState ==
    [][last'.op \in RefreshOps =>
          \A a \in DOMAIN last'.arg :
              IF last'.arg[a] = Fail
              THEN /\ a \in DOMAIN _accounts' /\ a \in DOMAIN _positions'
                   /\ _accounts'[a] = _accounts[a]
                   /\ _positions'[a] = _positions[a]
              ELSE _accounts'[a] = last'.arg[a]]_vars

\* one account's fetch failed while it held positions, another's was applied
C7_Witness ==
    /\ last.op = "refresh_positions"
    /\ \E a, b \in DOMAIN last.arg :
          /\ last.arg[a] = Fail /\ _positions[a] # EmptyDict
          /\ last.arg[b] # Fail /\ _accounts[b] = last.arg[b]
          /\ _accounts[b] # _accounts[a]

OrderRefreshOps == {"_update_order", "cancel_order"}

\* C2: once a terminal status is recorded for an order, no later monitoring
\* tick and no cancel_order refresh invokes a status-change callback for that
\* order, whatever status Transport returns.
C2_NoCallbackAfterTerminal ==
    [][last'.op \in OrderRefreshOps =>
          \A k \in DOMAIN fired' :
              ~ /\ fired'[k].order_id \in DOMAIN _orders
                /\ _orders[fired'[k].order_id].status \in TerminalStatuses]_vars

\* C3: the stored status of an order is monotonic: once it is terminal, no
\* monitoring tick and no cancel_order refresh changes it again.
C3_TerminalStatusStays ==
    [][last'.op \in OrderRefreshOps =>
          \A o \in DOMAIN _orders :
              _orders[o].status \in TerminalStatuses =>
                  /\ o \in DOMAIN _orders'
                  /\ _orders'[o].status = _orders[o].status]_vars

\* the execution ids of an order's EXECUTION activity
ExecutionIdsOf(order) ==
    {from_activity(order.order_id, order.order_activity_collection[i],
                   order.order_activity_collection[i].execution_legs[j]).execution_id :
        <<i, j>> \in {<<i, j>> \in (DOMAIN order.order_activity_collection) \X (1..2) :
                        /\ order.order_activity_collection[i].activity_type = "EXECUTION"
                        /\ j \in DOMAIN order.order_activity_collection[i].execution_legs}}

\* the records of the ledger that carry an execution id
RecordsOf(execution_id) ==
    {k \in DOMAIN _executions : _executions[k].execution_id = execution_id}

\* C5: executions are deduplicated by execution id: however many ticks process
\* an order's execution activity, the ledger holds exactly one record per
\* execution id, so never more records than distinct ids seen.
C5_OneRecordPerExecutionId ==
    /\ \A k \in DOMAIN _executions :
          Cardinality(RecordsOf(_executions[k].execution_id)) = 1
    /\ \A o \in DOMAIN _orders :
          \A id \in ExecutionIdsOf(_orders[o]) : Cardinality(RecordsOf(id)) = 1

\* a tick processed execution <<1, 1, 1>> again, after an earlier tick had
\* processed it together with execution <<1, 1, 2>>
C5_Witness ==
    /\ last.op = "_update_order"
    /\ 1 \in DOMAIN _orders
    /\ ExecutionIdsOf(_orders[1]) = {<<1, 1, 1>>}
    /\ Cardinality(RecordsOf(<<1, 1, 1>>)) = 1
    /\ Cardinality(RecordsOf(<<1, 1, 2>>)) = 1

\* C6: execution records are append-only: once a record is stored under an
\* execution id, no later operation replaces, rewrites or removes it.
C6_ExecutionsAppendOnly ==
    [][\A k \in DOMAIN _executions :
          /\ k \in DOMAIN _executions'
          /\ _executions'[k] = _executions[k]]_vars

\* no entry of the recent orders has the submitted order's type and quantity
NoMatch(order, recent) ==
    \A i \in DOMAIN recent :
        ~ (recent[i].order_type = order.order_type /\ recent[i].quantity = order.quantity)

\* place_order got past the submission and the recent-order search
Submitted ==
    /\ last.op = "place_order"
    /\ last.arg.account_number \in DOMAIN _accounts
    /\ last.arg.submitted

\* C8: when place_order submits an order and the recent-order search has no
\* entry with the order's type and quantity, place_order returns the unknown
\* id 0 and raises nothing.
C8_NoMatchReturnsZero ==
    (Submitted /\ NoMatch(last.arg.order, last.arg.recent)) =>
        (last.raised = "" /\ last.ret = 0)

\* place_order returned 0 although the venue listed recent orders
C8_Witness ==
    /\ Submitted /\ last.arg.recent # <<>>
    /\ NoMatch(last.arg.order, last.arg.recent)
    /\ last.raised = "" /\ last.ret = 0

\* the callbacks registered for an order when a refresh begins
CallbacksOf(o) == IF o \in DOMAIN _order_callbacks THEN _order_callbacks[o] ELSE <<>>

\* C11: on each detected status change of an order every callback registered
\* for the order's id is invoked exactly once, in registration order, with the
\* order's new status; a callback that raises does not keep the later ones
\* from being invoked.
C11_StatusFanOut ==
    [][last'.op \in OrderRefreshOps =>
          \A o \in DOMAIN _orders :
              _orders'[o].status # _orders[o].status =>
                  /\ Len(fired') = Len(CallbacksOf(o))
                  /\ \A i \in DOMAIN fired' :
                        fired'[i] = [callback |-> CallbacksOf(o)[i], order_id |-> o,
                                     status |-> _orders'[o].status]]_vars

\* a status change reached a callback registered after one that raises
C11_Witness ==
    /\ last.op = "_update_order" /\ Len(fired) = 2
    /\ fired[1].callback = "cbRaise" /\ fired[2].callback = "cbOk"
    /\ fired[1].order_id = fired[2].order_id
    /\ _orders[fired[1].order_id].status = fired[2].status

\* C12: add_account for an id that is already in the ledger fetches a fresh
\* snapshot and replaces the id's account record and position map with the
\* new snapshot's.
C12_AddAccountReplaces ==
    [][last'.op = "add_account" =>
          \A a \in DOMAIN last'.arg :
              (a \in DOMAIN _accounts /\ last'.arg[a] # Fail) =>
                  /\ _accounts'[a] = last'.arg[a]
                  /\ DOMAIN _positions'[a] = SnapshotSymbols(last'.arg[a])]_vars

(***************************************************************************)
(*                     Properties: subscriptions                           *)
(***************************************************************************)
SymbolSet(symbols) == {symbols[i] : i \in DOMAIN symbols}

\* the request a streamer sent last
LastSent(s) == s.sent[Len(s.sent)]

\* C13: subscribe on a service merges the new symbols into the service's
\* tracked set: after subscribes with S1 and then S2 on the same service, the
\* tracked set is the union of S1 and S2.
C13_SubscribeMerges ==
    [][(/\ slast'.op = "subscribe" /\ ~slast'.raised
        /\ streamer # NoStreamer
        /\ LastSent(streamer').service \in DOMAIN streamer.subscriptions) =>
          LET service == LastSent(streamer').service IN
          SymbolSet(streamer'.subscriptions[service].symbols)
            = SymbolSet(streamer.subscriptions[service].symbols)
                \cup SymbolSet(LastSent(streamer').keys)]_vars

\* the symbols of a list that are not among the given ones, in order
Remaining(tracked, given) ==
    SelectSeq(tracked, LAMBDA x : x \notin SymbolSet(given))

Connected == streamer # NoStreamer /\ streamer.is_connected

\* C20: while the supervisor runs, reconnection is retried indefinitely: a
\* failed attempt neither ends the liveness loop nor reaches the caller, so
\* when connects eventually succeed the supervisor eventually holds a
\* connected connection again.
C20_ReconnectRetried ==
    /\ [][(slast'.op = "reconnect" /\ slast'.raised) =>
             (_running' /\ _reconnect_task' = "backoff" /\ tasks' = tasks)]_vars
    /\ ((_running /\ _reconnect_task \in {"sleep", "backoff"} /\ ~Connected) ~> Connected)

\* a reconnect succeeded after an attempt that had failed
C20_Witness ==
    /\ slast.op = "reconnect" /\ ~slast.raised /\ Connected
    /\ replaced # NoStreamer /\ replaced.websocket = None /\ ~replaced.is_connected

\* C15: a subscribe, unsubscribe or set_qos call issued on the supervisor
\* while it has no usable connection is not lost: it is applied to the new
\* connection once that connection is established.  Stated for a subscribe
\* issued before the connect that start() makes.
C15_CallsQueued ==
    [][(/\ slast.op = "subscribe" /\ streamer = NoStreamer
        /\ slast'.op = "start" /\ ~slast'.raised) =>
          /\ streamer'.subscriptions # EmptyDict
          /\ \E k \in DOMAIN streamer'.sent : streamer'.sent[k].command = "SUBS"]_vars

\* C16: start() and stop() are idempotent: after start(), however often it
\* was called, there is one reconnect task and one active connection; a
\* stop() that follows a stop() changes nothing and does not raise.
C16_StartStopIdempotent ==
    [][/\ (slast'.op = "start" /\ ~slast'.raised) => (tasks' = 1 /\ orphans' = 0)
       /\ (slast.op = "stop" /\ slast'.op = "stop") =>
             /\ ~slast'.raised
             /\ UNCHANGED <<streamer, _running, _reconnect_task, tasks, orphans>>]_vars

\* C17: a connection reports connected only after the server's response to
\* LOGIN has been received and validated, never on having sent LOGIN.
C17_ConnectedAfterLoginAck ==
    Connected => login_response = "ok"

\* C18: a login the server rejects is surfaced by connect() as an error (an
\* authentication error, apart from the error of a socket that does not
\* open): the connection of a rejected login is not reported connected.
C18_RejectedLoginSurfaced ==
    (streamer # NoStreamer /\ login_response = "rejected") => ~streamer.is_connected

\* C19: disconnect() always closes the socket: after it returns the
\* connection holds no open socket and its heartbeat and receive tasks are
\* cancelled, whether LOGOUT was sent or failed, and also when a remote close
\* had already marked the connection not connected.
C19_DisconnectCloses ==
    (slast.op = "stop" /\ streamer # NoStreamer) =>
        /\ streamer.websocket # "open"
        /\ streamer._heartbeat_task # "running"
        /\ streamer._receive_task # "running"

\* C21: after a reconnect attempt of the supervisor has failed, the loop makes
\* no further connect attempt until its 30 second back-off has elapsed: the
\* failed attempt leaves the loop in the back-off, a loop in the back-off
\* makes no attempt, and only the end of the back-off takes it out of it.
C21_BackoffBeforeRetry ==
    [][/\ (slast'.op = "reconnect" /\ slast'.raised) => _reconnect_task' = "backoff"
       /\ _reconnect_task = "backoff" =>
             /\ slast'.op # "reconnect"
             /\ (_reconnect_task' # "backoff" =>
                    (slast'.op = "backoff" /\ _reconnect_task' = "sleep"))]_vars

\* the back-off after a failed attempt has elapsed and the loop polls again
C21_Witness ==
    /\ slast.op = "backoff" /\ _reconnect_task = "sleep" /\ ~Connected

\* C22: no Transport call (get_account, get_order, get_orders, place_order,
\* cancel_order) is made while the ledger's lock is held: every operation
\* fetches first and takes the lock only to commit the result.
C22_NoTransportUnderLock ==
    "events" \in DOMAIN last =>
        \A i \in DOMAIN last.events :
            last.events[i] \in TransportCalls => ~Held(last.events, i)

\* C24: cancel_order for a tracked order first issues the cancellation to
\* Transport and only then re-fetches the order; when it returns, the order
\* stored for the id is the re-fetched one, and the callbacks registered for
\* the id have been called, each once and in order, if and only if the
\* re-fetched status differs from the stored one.
C24_CancelThenRefetch ==
    [][(last'.op = "cancel_order" /\ last'.raised = "") =>
          LET o == last'.arg.order_id
              order == last'.arg.order
          IN /\ o \in DOMAIN _orders
             /\ Len(last'.events) >= 2
             /\ SubSeq(last'.events, 1, 2) = <<"cancel_order", "get_order">>
             /\ order # Fail =>
                   /\ _orders'[o] = order
                   /\ fired' = IF order.status # _orders[o].status
                               THEN [i \in DOMAIN CallbacksOf(o) |->
                                        [callback |-> CallbacksOf(o)[i], order_id |-> o,
                                         status |-> order.status]]
                               ELSE <<>>]_vars

\* a cancelled order was re-fetched as CANCELED and its callback was told
C24_Witness ==
    /\ last.op = "cancel_order" /\ last.raised = "" /\ last.arg.order # Fail
    /\ _orders[last.arg.order_id] = last.arg.order
    /\ last.arg.order.status = CANCELED
    /\ fired # <<>> /\ fired[1].status = CANCELED

\* C25: monitor_orders(callback) appends the callback to the callback list of
\* every order id tracked when it is called, leaves the list of every other
\* id as it was and creates none for an id that is not tracked, and when it
\* returns the monitoring loop is running.
C25_MonitorOrdersRegisters ==
    [][last'.op = "monitor_orders" =>
          /\ DOMAIN _order_callbacks' = DOMAIN _order_callbacks \cup DOMAIN _orders
          /\ \A o \in DOMAIN _order_callbacks' :
                _order_callbacks'[o] = IF o \in DOMAIN _orders
                                       THEN Append(CallbacksOf(o), last'.arg)
                                       ELSE _order_callbacks[o]
          /\ _monitoring' /\ loops' >= 1]_vars

\* a second callback was registered for a tracked order, the loop running
C25_Witness ==
    /\ last.op = "monitor_orders" /\ _monitoring /\ loops >= 1
    /\ \E o \in DOMAIN _orders :
          /\ Len(_order_callbacks[o]) = 2
          /\ _order_callbacks[o][2] = last.arg

\* C29: at most one order-monitoring loop is alive at any time, whatever the
\* interleaving of place_order, monitor_orders and stop_monitoring.
C29_OneMonitoringLoop == loops <= 1

C26_TotalValue ==
    last.op = "get_portfolio_summary" =>
        LET r == last.ret IN
        /\ r.total_value = r.total_cash + r.total_equity
        /\ r.total_equity = SumOver([symbol \in DOMAIN r.positions_by_symbol |->
                                       r.positions_by_symbol[symbol].market_value],
                                    DOMAIN r.positions_by_symbol)
        /\ r.total_cash = SumOver([a \in DOMAIN _accounts |->
                                     _extract_account_cash_balance(_accounts[a])],
                                  DOMAIN _accounts)

\* two accounts with cash, one position skipped and one valued by its last price
C26_Witness ==
    /\ last.op = "get_portfolio_summary"
    /\ Cardinality(DOMAIN _accounts) = 2
    /\ last.ret.total_cash = 700 /\ last.ret.total_equity = 2150
    /\ last.ret.total_value = 2850
    /\ DOMAIN last.ret.positions_by_symbol = {"AAPL"}

\* C27: for every symbol that get_portfolio_summary reports, the reported
\* gain_loss is the reported market_value minus the reported cost_basis and
\* the reported gain_loss_pct is that gain_loss over the cost_basis, times
\* 100, also when the symbol is held in more than one account.  Stated for
\* the symbols with a positive cost basis.
C27_GainLossOfReported ==
    last.op = "get_portfolio_summary" =>
        \A symbol \in DOMAIN last.ret.positions_by_symbol :
            LET e == last.ret.positions_by_symbol[symbol] IN
            e.cost_basis > 0 =>
                /\ e.gain_loss = e.market_value - e.cost_basis
                /\ e.gain_loss_pct.num * e.cost_basis = e.gain_loss * 100 * e.gain_loss_pct.den

\* the position maps once the refresh in progress has stored every position
AfterRefresh ==
    DictSet(refreshing.before, refreshing.account_number,
            RefreshedPositions(EmptyDict, _accounts[refreshing.account_number]))

\* C30: a reader that runs while refresh_positions replaces an account's
\* position map sees the complete map of the previous snapshot or the
\* complete map of the new one, never an empty or partly filled map: what
\* get_position returns during a refresh is what it returns of the maps
\* before the refresh or of the maps after it.
C30_ReadersSeeCompleteMaps ==
    (last.op = "get_position" /\ refreshing # NoRefresh) =>
        last.ret \in {GetPosition(refreshing.before, last.arg),
                      GetPosition(AfterRefresh, last.arg)}

(***************************************************************************)
(*                     Properties: persistence                             *)
(***************************************************************************)
\* C23: after a ledger has been constructed from a persisted snapshot, its
\* accounts, orders and executions maps hold exactly the ids stored in the
\* snapshot, its watched orders are exactly the restored orders whose status
\* is WORKING, and the monitoring loop is running whenever an order is watched.
C23_RestoredFromSnapshot ==
    (last.op = "__init__" /\ persisted # NoFile /\ persisted.readable) =>
        /\ DOMAIN _accounts = DOMAIN persisted.accounts
        /\ {str(o) : o \in DOMAIN _orders} = DOMAIN persisted.orders
        /\ DOMAIN _executions = DOMAIN persisted.executions
        /\ _monitored_orders = {o \in DOMAIN _orders : _orders[o].status = WORKING}
        /\ _monitored_orders # {} => (_monitoring /\ loops >= 1)

\* a ledger restored with an account, an execution, a watched order and an
\* order that is no longer watched
C23_Witness ==
    /\ last.op = "__init__" /\ persisted # NoFile /\ persisted.readable
    /\ DOMAIN _accounts = {"A1"} /\ DOMAIN _executions # {}
    /\ _monitored_orders # {} /\ _monitored_orders # DOMAIN _orders
    /\ _monitoring /\ loops = 1

(***************************************************************************)
(*                  Properties: order placement frame                      *)
(***************************************************************************)
\* a place_order that produced no order id: the account is not in the ledger,
\* or the recent-order search found no match
NoOrderId(l) ==
    /\ l.op = "place_order"
    /\ \/ l.raised = "ValueError"
       \/ l.raised = "" /\ l.ret = 0

\* C40: a place_order call that yields no real order id, because the account
\* is not in the ledger (it raises before any Transport call) or because no
\* recent order matches (it returns the sentinel 0), leaves the orders map,
\* the watched-order set, the callback map and the monitoring flag as before.
C40_FailedPlaceLeavesLedger ==
    [][NoOrderId(last') =>
          /\ UNCHANGED <<_orders, _monitored_orders, _order_callbacks, _monitoring>>
          /\ last'.raised = "ValueError" => last'.events = <<>>]_vars

\* an unmatched place_order on an account of the ledger whose monitoring loop
\* had not been started
C40_Witness ==
    /\ NoOrderId(last) /\ last.raised = "" /\ last.arg.recent # <<>>
    /\ last.arg.account_number \in DOMAIN _accounts
    /\ ~_monitoring /\ loops = 0

(***************************************************************************)
(*                  Properties: the monitoring tick                        *)
(***************************************************************************)
\* the monitoring loop's fetch of an order raised
FetchFailed(l) == l.op = "_update_order" /\ l.arg.order = Fail

\* C32: when the monitoring loop's fetch of an order fails on a tick, the
\* stored orders and executions are unchanged, no callback fires, the order
\* stays watched, and the loop goes on: every watched order, the failed one
\* included, is still due for a fetch.
C32_FailedFetchSkipsOrder ==
    [][FetchFailed(last') =>
          /\ UNCHANGED <<_orders, _executions, _order_callbacks, _monitored_orders,
                         _monitored_accounts>>
          /\ fired' = <<>>
          /\ last'.arg.order_id \in _monitored_orders'
          /\ _monitoring' /\ loops' = loops /\ loops' > 0]_vars

\* a failed fetch of a WORKING order that has a callback registered
C32_Witness ==
    /\ FetchFailed(last)
    /\ last.arg.order_id \in DOMAIN _orders
    /\ _orders[last.arg.order_id].status = WORKING
    /\ CallbacksOf(last.arg.order_id) # <<>>
    /\ Cardinality(_monitored_orders) = 2

\* C33: the monitoring loop fetches an order only until its stored status is
\* terminal: no tick fetches an order whose stored status is FILLED or
\* CANCELED.
C33_NoFetchAfterTerminal ==
    [][last'.op = "_update_order" =>
          ~ /\ last'.arg.order_id \in DOMAIN _orders
            /\ _orders[last'.arg.order_id].status \in TerminalStatuses]_vars

\* the callbacks that monitor_orders has put into the callback map
Registered ==
    UNION {{_order_callbacks[o][i] : i \in DOMAIN _order_callbacks[o]} :
              o \in DOMAIN _order_callbacks}

\* C39: every status change detected for a tracked order is delivered to each
\* callback registered through monitor_orders, whether the order was placed
\* before or after monitor_orders was called.
C39_ChangeReachesRegistered ==
    [][(last'.op \in OrderRefreshOps /\ last'.raised = "") =>
          \A o \in DOMAIN _orders :
              _orders'[o].status # _orders[o].status =>
                  \A callback \in Registered :
                      \E k \in DOMAIN fired' :
                          fired'[k].order_id = o /\ fired'[k].callback = callback]_vars

(***************************************************************************)
(*             Properties: restored positions and callbacks                *)
(***************************************************************************)
\* C36: after a ledger has been restored from a persisted snapshot, the
\* position map of each restored account has the symbol keys that add_account
\* and refresh_positions derive from that snapshot, and every restored account
\* is watched.
C36_RestoredSymbolsAgree ==
    (last.op = "__init__" /\ persisted # NoFile /\ persisted.readable) =>
        \A a \in DOMAIN _accounts :
            /\ a \in DOMAIN _positions
            /\ DOMAIN _positions[a] = SnapshotSymbols(_accounts[a])
            /\ a \in _monitored_accounts

\* the callbacks that _handle_data invokes for a data item of a service
Receivers(callbacks, service) ==
    LET calls == _handle_data(callbacks, <<[service |-> service, content |-> 1]>>)
    IN {calls[k].callback : k \in DOMAIN calls}

\* C37: callback registrations survive a reconnect: after the supervisor has
\* replaced a dropped connection, a data frame for a service is delivered to
\* every callback that was registered for that service on the old connection.
C37_CallbacksSurviveReconnect ==
    ReconnectedAfterDrop =>
        \A service \in DOMAIN replaced.callbacks :
            Receivers(replaced.callbacks, service) \subseteq
                Receivers(streamer.callbacks, service)

(***************************************************************************)
(*                  Properties: slow streaming callbacks                   *)
(***************************************************************************)
\* the receive loop can read a frame
FrameReadable == ENABLED (\E f \in Frames : ReceiveData(f))

\* the callbacks registered for the services of the frame being dispatched
\* that have not been called with it yet
Waiting ==
    {k \in DOMAIN _handle_data(streamer.callbacks, frame) : k > Len(delivered)}

\* C35: a streaming callback that blocks or runs slowly does not stall the
\* receive loop: while it is running, the frame is dispatched to the other
\* callbacks and the next frame can be read.
C35_SlowCallbackDoesNotStall ==
    Busy => (Waiting = {} /\ FrameReadable)

(***************************************************************************)
(*                  Properties: stopping the loops                         *)
(***************************************************************************)
\* a step that leaves the client with a connection it did not have
NewConnection ==
    /\ streamer' # streamer
    /\ streamer' # NoStreamer /\ streamer'.is_connected

\* C34: after stop_monitoring(), with no later start, the monitoring loop makes
\* no Transport call and no change to the ledger and ends; likewise after the
\* supervisor's stop(), with no later start(), no reconnect loop creates a
\* connection again.
C34_StoppedLoopsStayStopped ==
    [][/\ (~_monitoring /\ ~_monitoring') =>
             /\ last' # last => last'.op \notin {"_update_order", "_save_state"}
             /\ loops' <= loops
       /\ (~_running /\ ~_running') => ~NewConnection]_vars

(***************************************************************************)
(*                  Properties: the ledger lock                            *)
(***************************************************************************)
\* C31: every mutation of the ledger's maps (accounts, positions, orders,
\* executions, order callbacks) is made while the ledger lock is held.
C31_MutationsUnderLock ==
    "events" \in DOMAIN last =>
        \A i \in DOMAIN last.events :
            last.events[i] = Write => Held(last.events, i)

\* a status change was fanned out to a callback that calls cancel_order
ReenteredLedger ==
    /\ last.op \in OrderRefreshOps /\ last.raised = ""
    /\ \E k \in DOMAIN fired : Invoke(fired[k].callback) = "reenter"

\* C38: a status-change callback that calls back into the ledger through an
\* operation that acquires the ledger lock completes without deadlock: the
\* lock is never waited for by the thread that holds it, and the refresh that
\* ran the callback ends with the lock released.
C38_ReentrantCallbackCompletes ==
    ReenteredLedger =>
        /\ \A i \in DOMAIN last.events :
              last.events[i] = Acquire => ~Held(last.events, i)
        /\ ~LockStuck

====
